---- MODULE Spec2Model ----
(***************************************************************************)
(* DataAirlock: detection -> pseudonymization -> reversal pipeline.        *)
(*                                                                         *)
(* A text is a sequence of characters; a character is a one-token string.  *)
(* Characters outside ASCII are written as named tokens: "u7530" is the     *)
(* kanji U+7530, "kt_ya" a katakana, "u3000" the full-width space.         *)
(* JavaScript offsets are 0-based; positions here are 1-based, so a match  *)
(* with startIndex s and endIndex e covers the characters s+1 .. e.        *)
(***************************************************************************)
EXTENDS Integers, Sequences, FiniteSets, TLC

VARIABLES
    entries,        \* SessionMapping.entries: placeholder -> MappingEntry
    reverseIndex,   \* SessionMapping.reverseIndex: original value -> placeholder
    counters,       \* SessionMapping.counters: PIIType -> number (a partial map)
    last,           \* the last completed operation with its inputs and results
    nOps,           \* number of operations performed so far
    patterns,       \* PatternRegistry.patterns: the array of rules
    text,           \* PIIDetector.detect: the text under detection
    detected,       \* PIIDetector.detect: the matches returned
    stored,         \* the persisted mapping document of the output folder
    flow,           \* the command family a behaviour exercises
    disabledTypes,  \* the categories switched off by setEnabled and not on since
    disk,           \* the files on disk: path -> content
    calls,          \* the anonymizeSingleValue calls made, with their results
    runs,           \* the anonymizeFolder runs in progress, each with its position and its mapping
    toggled         \* registry flows: the categories setEnabled was called for since construction or reset

vars == <<entries, reverseIndex, counters, last, nOps, patterns, text, detected, stored, flow, disabledTypes, disk, calls, runs, toggled>>

----------------------------------------------------------------------------
(* Sequence helpers.                                                       *)

Max(a, b) == IF a >= b THEN a ELSE b

Range(s) == {s[i] : i \in DOMAIN s}

\* String.prototype.slice(a, b) with 0-based a, b clipped to the string.
Slice(s, a, b) ==
    LET lo == Max(a, 0)
        hi == IF b > Len(s) THEN Len(s) ELSE b
    IN  IF hi <= lo THEN <<>> ELSE SubSeq(s, lo + 1, hi)

RECURSIVE Flatten(_)
Flatten(ss) == IF ss = <<>> THEN <<>> ELSE Head(ss) \o Flatten(Tail(ss))

----------------------------------------------------------------------------
(* Character classes of the regular expressions of the repository.         *)

Digit == {"0", "1", "2", "3", "4", "5", "6", "7", "8", "9"}

LowerLetter == {"a", "b", "c", "d", "e", "f", "g", "h", "i", "j", "k", "l", "m",
                "n", "o", "p", "q", "r", "s", "t", "u", "v", "w", "x", "y", "z"}

UpperLetter == {"A", "B", "C", "D", "E", "F", "G", "H", "I", "J", "K", "L", "M",
                "N", "O", "P", "Q", "R", "S", "T", "U", "V", "W", "X", "Y", "Z"}

\* \w of a JavaScript regular expression
WordChar == Digit \cup LowerLetter \cup UpperLetter \cup {"_"}

\* \s of a JavaScript regular expression (U+3000 is white space)
WhiteSpace == {" ", "\t", "\n", "\r", "u3000"}

\* [U+4E00-U+9FAF]: the kanji that occur in the texts and words of the model
Kanji ==
    {"u4e2d", "u4e86", "u4e88", "u4eac", "u4eba", "u4ed8", "u4ee4",
     "u4eee", "u4f4f", "u4f5c", "u500b", "u5099", "u5148", "u5150",
     "u5185", "u51fa", "u5206", "u5225", "u523b", "u524d", "u52b9",
     "u5317", "u533a", "u53f7", "u540d", "u548c", "u5668", "u5916",
     "u5927", "u592a", "u59cb", "u59d3", "u5a66", "u5b9a", "u5b9f",
     "u5c04", "u5c0f", "u5c3f", "u5c5e", "u5e73", "u5e74", "u5e9c",
     "u5f53", "u5f62", "u5f79", "u5fc3", "u6025", "u614b", "u6210",
     "u6240", "u62c5", "u653e", "u6551", "u6574", "u65ad", "u65b0",
     "u65e5", "u660e", "u662d", "u6642", "u66f4", "u6708", "u6709",
     "u671f", "u6728", "u672a", "u6771", "u6b63", "u6c0f", "u6cbb",
     "u6ccc", "u6d77", "u72b6", "u7406", "u751f", "u7523", "u7530",
     "u756a", "u75c5", "u7642", "u767b", "u76ae", "u76f4", "u770c",
     "u773c", "u78ba", "u795e", "u79d1", "u7a2e", "u7cbe", "u7d42",
     "u7d61", "u7dca", "u7dda", "u7e3e", "u7f72", "u8003", "u8005",
     "u8033", "u8077", "u819a", "u82b1", "u8a3a", "u8a71", "u8a95",
     "u9023", "u9053", "u90ce", "u90e8", "u90fd", "u9154", "u9234",
     "u9332", "u958b", "u962a", "u9650", "u96fb", "u985e", "u9ebb",
     "u9f3b"}

\* [U+30A1-U+30F6] and U+30FC: the katakana that occur in the words of the model
Katakana ==
    {"u30a4", "u30b3", "u30c8", "u30ca", "u30d0", "u30de", "u30e1",
     "u30f3", "u30fc"}

\* String.prototype.toLowerCase / toUpperCase, character by character
LowerOf == [c \in UpperLetter |->
    CASE c = "A" -> "a" [] c = "B" -> "b" [] c = "C" -> "c" [] c = "D" -> "d"
      [] c = "E" -> "e" [] c = "F" -> "f" [] c = "G" -> "g" [] c = "H" -> "h"
      [] c = "I" -> "i" [] c = "J" -> "j" [] c = "K" -> "k" [] c = "L" -> "l"
      [] c = "M" -> "m" [] c = "N" -> "n" [] c = "O" -> "o" [] c = "P" -> "p"
      [] c = "Q" -> "q" [] c = "R" -> "r" [] c = "S" -> "s" [] c = "T" -> "t"
      [] c = "U" -> "u" [] c = "V" -> "v" [] c = "W" -> "w" [] c = "X" -> "x"
      [] c = "Y" -> "y" [] c = "Z" -> "z"]

toLowerChar(c) == IF c \in UpperLetter THEN LowerOf[c] ELSE c

toUpperChar(c) ==
    IF c \in LowerLetter THEN CHOOSE u \in UpperLetter : LowerOf[u] = c ELSE c

toLowerCase(s) == [i \in DOMAIN s |-> toLowerChar(s[i])]

----------------------------------------------------------------------------
(* A backtracking matcher for the regular expressions the repository uses. *)
(* A pattern is a record with a kind k:                                    *)
(*   set   one character of s          nset  one character not in s        *)
(*   cat   xs in sequence              alt   xs tried left to right        *)
(*   rep   x, lo to hi times, greedy (hi = -1: no upper limit)             *)
(*   la    lookahead on x (neg: negative)                                  *)
(*   lb    lookbehind on x (neg: negative); every lookbehind of the        *)
(*         repository is at most one character wide                        *)
(*   bol   ^ without the m flag        eol   $ without the m flag          *)
(*   wb    \b                                                              *)
(* Ends(re, t, i) lists, in the order a backtracking engine tries them,    *)
(* the positions at which a match of re starting at position i can end.    *)

ReSet(s) == [k |-> "set", s |-> s]
ReNset(s) == [k |-> "nset", s |-> s]
ReChar(c) == [k |-> "set", s |-> {c}]
ReCat(xs) == [k |-> "cat", xs |-> xs]
ReAlt(xs) == [k |-> "alt", xs |-> xs]
ReRep(x, lo, hi) == [k |-> "rep", x |-> x, lo |-> lo, hi |-> hi]
ReOpt(x) == ReRep(x, 0, 1)
ReAhead(x) == [k |-> "la", x |-> x, neg |-> FALSE]
ReNotAhead(x) == [k |-> "la", x |-> x, neg |-> TRUE]
ReBehind(x) == [k |-> "lb", x |-> x, neg |-> FALSE]
ReNotBehind(x) == [k |-> "lb", x |-> x, neg |-> TRUE]
ReBol == [k |-> "bol"]
ReEol == [k |-> "eol"]
ReWb == [k |-> "wb"]
\* a literal string
ReLit(cs) == ReCat([i \in DOMAIN cs |-> ReChar(cs[i])])
\* a literal string under the i flag
ReLitI(cs) == ReCat([i \in DOMAIN cs |-> ReSet({cs[i], toLowerChar(cs[i]), toUpperChar(cs[i])})])

IsWordAt(t, i) == i >= 1 /\ i <= Len(t) /\ t[i] \in WordChar

RECURSIVE Ends(_, _, _), EndsCat(_, _, _, _), EndsAlt(_, _, _, _), EndsRep(_, _, _, _, _), EndsEach(_, _, _, _, _, _)

Ends(re, t, i) ==
    CASE re.k = "set"  -> IF i <= Len(t) /\ t[i] \in re.s THEN <<i + 1>> ELSE <<>>
      [] re.k = "nset" -> IF i <= Len(t) /\ t[i] \notin re.s THEN <<i + 1>> ELSE <<>>
      [] re.k = "cat"  -> EndsCat(re.xs, 1, t, i)
      [] re.k = "alt"  -> EndsAlt(re.xs, 1, t, i)
      [] re.k = "rep"  -> EndsRep(re.x, re.lo, re.hi, t, i)
      [] re.k = "la"   -> IF (Ends(re.x, t, i) # <<>>) # re.neg THEN <<i>> ELSE <<>>
      [] re.k = "lb"   ->
            IF (\E j \in {i - 1, i} : j >= 1 /\ i \in Range(Ends(re.x, t, j))) # re.neg
            THEN <<i>> ELSE <<>>
      [] re.k = "bol"  -> IF i = 1 THEN <<i>> ELSE <<>>
      [] re.k = "eol"  -> IF i = Len(t) + 1 THEN <<i>> ELSE <<>>
      [] re.k = "wb"   -> IF IsWordAt(t, i - 1) # IsWordAt(t, i) THEN <<i>> ELSE <<>>

\* for each end e of es (from index n on), the ends of the continuation
\* (the rest of a sequence xs from index m, or further repetitions)
EndsEach(es, n, xs, m, t, rep) ==
    IF n > Len(es) THEN <<>>
    ELSE (IF rep.on
          THEN (IF es[n] > rep.from
                THEN EndsRep(rep.x, Max(rep.lo - 1, 0), IF rep.hi = -1 THEN -1 ELSE rep.hi - 1, t, es[n])
                ELSE <<>>)
          ELSE EndsCat(xs, m, t, es[n]))
         \o EndsEach(es, n + 1, xs, m, t, rep)

EndsCat(xs, m, t, i) ==
    IF m > Len(xs) THEN <<i>>
    ELSE EndsEach(Ends(xs[m], t, i), 1, xs, m + 1, t, [on |-> FALSE])

EndsAlt(xs, m, t, i) ==
    IF m > Len(xs) THEN <<>>
    ELSE Ends(xs[m], t, i) \o EndsAlt(xs, m + 1, t, i)

EndsRep(x, lo, hi, t, i) ==
    (IF hi = 0 THEN <<>>
     ELSE EndsEach(Ends(x, t, i), 1, <<>>, 1, t,
                   [on |-> TRUE, x |-> x, lo |-> lo, hi |-> hi, from |-> i]))
    \o (IF lo = 0 THEN <<i>> ELSE <<>>)

\* RegExp.prototype.exec from lastIndex (0-based): the leftmost match at or
\* after it, as [index, end) in 0-based offsets, or the record with found FALSE
RECURSIVE RegExpExec(_, _, _)
RegExpExec(re, t, lastIndex) ==
    IF lastIndex > Len(t) THEN [found |-> FALSE]
    ELSE LET es == Ends(re, t, lastIndex + 1)
         IN  IF es # <<>>
             THEN [found |-> TRUE, index |-> lastIndex, end |-> es[1] - 1]
             ELSE RegExpExec(re, t, lastIndex + 1)

\* the matches a loop `while ((m = regex.exec(text)) !== null)` sees for a
\* regular expression with the g flag, starting from lastIndex (exec leaves
\* lastIndex at the end of the match; no expression here matches the empty
\* string)
RECURSIVE ExecAll(_, _, _)
ExecAll(re, t, lastIndex) ==
    LET m == RegExpExec(re, t, lastIndex)
    IN  IF ~m.found THEN <<>>
        ELSE <<[index |-> m.index, end |-> m.end]>>
             \o ExecAll(re, t, m.end)

----------------------------------------------------------------------------
(* A JavaScript Map: the sequence of its [key, val] pairs in insertion     *)
(* order.                                                                  *)

EmptyMap == <<>>

MapHas(m, key) == \E i \in DOMAIN m : m[i].key = key

MapIndex(m, key) == CHOOSE i \in DOMAIN m : m[i].key = key

MapGet(m, key) == m[MapIndex(m, key)].val

\* Map.prototype.set: an existing key keeps its place
MapSet(m, key, val) ==
    IF MapHas(m, key)
    THEN [m EXCEPT ![MapIndex(m, key)] = [key |-> key, val |-> val]]
    ELSE Append(m, [key |-> key, val |-> val])

MapDelete(m, key) == SelectSeq(m, LAMBDA kv : kv.key # key)

MapKeys(m) == {m[i].key : i \in DOMAIN m}

MapValues(m) == [i \in DOMAIN m |-> m[i].val]

\* `map.get(key)` where undefined is written as the empty string: both are
\* falsy, and no placeholder is empty
Undefined == <<>>

GetOrUndefined(m, key) == IF MapHas(m, key) THEN MapGet(m, key) ELSE Undefined

----------------------------------------------------------------------------
(* Types.                                                                  *)

PIIType == {"NAME", "PHONE", "EMAIL", "ADDRESS", "MYNUMBER", "DOB"}

\* the characters of each member of the enum PIIType
TypeChars == [ty \in PIIType |->
    CASE ty = "NAME"     -> <<"N", "A", "M", "E">>
      [] ty = "PHONE"    -> <<"P", "H", "O", "N", "E">>
      [] ty = "EMAIL"    -> <<"E", "M", "A", "I", "L">>
      [] ty = "ADDRESS"  -> <<"A", "D", "D", "R", "E", "S", "S">>
      [] ty = "MYNUMBER" -> <<"M", "Y", "N", "U", "M", "B", "E", "R">>
      [] ty = "DOB"      -> <<"D", "O", "B">>]

\* Object.values(PIIType), in declaration order
PIITypeValues == <<"NAME", "PHONE", "EMAIL", "ADDRESS", "MYNUMBER", "DOB">>

createEmptyMapping == [entries |-> EmptyMap, reverseIndex |-> EmptyMap, counters |-> EmptyMap]

----------------------------------------------------------------------------
(* Numbers and their decimal notation.                                     *)

DigitChars == <<"0", "1", "2", "3", "4", "5", "6", "7", "8", "9">>

DigitValue(c) == (CHOOSE d \in DOMAIN DigitChars : DigitChars[d] = c) - 1

\* Number.prototype.toString for a non-negative integer
RECURSIVE NumberToString(_)
NumberToString(n) ==
    IF n < 10 THEN <<DigitChars[n + 1]>>
    ELSE Append(NumberToString(n \div 10), DigitChars[(n % 10) + 1])

\* String.prototype.padStart(targetLength, pad) with a one-character pad
RECURSIVE padStart(_, _, _)
padStart(s, targetLength, pad) ==
    IF Len(s) >= targetLength THEN s ELSE padStart(<<pad>> \o s, targetLength, pad)

\* parseInt(s, 10) for a string of decimal digits
RECURSIVE parseInt(_)
parseInt(s) ==
    IF s = <<>> THEN 0
    ELSE parseInt(SubSeq(s, 1, Len(s) - 1)) * 10 + DigitValue(s[Len(s)])

----------------------------------------------------------------------------
(* Anonymizer.                                                             *)

\* /[\s U+3000]+/g replaced by the empty string, for names only
normalizeNameForLookup(value, type) ==
    IF type = "NAME" THEN SelectSeq(value, LAMBDA c : c \notin WhiteSpace) ELSE value

\* `mapping.counters.get(type) || 0`
CounterOf(cs, type) == IF MapHas(cs, type) THEN MapGet(cs, type) ELSE 0

\* the string generatePlaceholder builds for a counter value
FormatPlaceholder(type, n) ==
    <<"[">> \o TypeChars[type] \o <<"_">> \o padStart(NumberToString(n), 3, "0") \o <<"]">>

\* Anonymizer.generatePlaceholder: the placeholder and the updated counters
generatePlaceholder(type, cs) ==
    LET newCounter == CounterOf(cs, type) + 1
    IN  [placeholder |-> FormatPlaceholder(type, newCounter),
         counters |-> MapSet(cs, type, newCounter)]

\* a replacement that cuts as many characters as the placeholder has
ReplaceAtByPlaceholderLength(result, adjustedStart, match, placeholder) ==
    Slice(result, 0, adjustedStart) \o placeholder
    \o Slice(result, adjustedStart + Len(placeholder), Len(result))

\* the replacement of a match by its placeholder in the result so far
ReplaceAt(result, adjustedStart, match, placeholder) ==
    Slice(result, 0, adjustedStart) \o placeholder
    \o Slice(result, adjustedStart + Len(match.value), Len(result))

\* the branch of the loop for a match whose value has a placeholder
ReuseMatch(st, match, placeholder) ==
    [st EXCEPT !.result = ReplaceAt(st.result, match.startIndex + st.offset, match, placeholder),
               !.offset = st.offset + Len(placeholder) - Len(match.value)]

\* a mint that leaves the reverse index as it is
MintMatchUnregistered(st, match, normalizedValue, gen, documentUri) ==
    [result |-> ReplaceAt(st.result, match.startIndex + st.offset, match, gen.placeholder),
     offset |-> st.offset + Len(gen.placeholder) - Len(match.value),
     reverseIndex |-> st.reverseIndex,
     counters |-> gen.counters,
     newEntries |-> Append(st.newEntries,
                           [placeholder |-> gen.placeholder, original |-> match.value,
                            type |-> match.type, documentUri |-> documentUri])]

\* the branch of the loop for a match whose value has none: gen is the
\* result of generatePlaceholder
MintMatch(st, match, normalizedValue, gen, documentUri) ==
    [result |-> ReplaceAt(st.result, match.startIndex + st.offset, match, gen.placeholder),
     offset |-> st.offset + Len(gen.placeholder) - Len(match.value),
     reverseIndex |->
        IF normalizedValue # match.value
        THEN MapSet(MapSet(st.reverseIndex, match.value, gen.placeholder),
                    normalizedValue, gen.placeholder)
        ELSE MapSet(st.reverseIndex, match.value, gen.placeholder),
     counters |-> gen.counters,
     newEntries |-> Append(st.newEntries,
                           [placeholder |-> gen.placeholder, original |-> match.value,
                            type |-> match.type, documentUri |-> documentUri])]

\* `mapping.reverseIndex.get(match.value) || mapping.reverseIndex.get(normalizedValue)`
LookupPlaceholder(rev, value, normalizedValue) ==
    IF GetOrUndefined(rev, value) # Undefined
    THEN GetOrUndefined(rev, value)
    ELSE GetOrUndefined(rev, normalizedValue)

AnonymizeFound(st, match, normalizedValue, found, documentUri) ==
    IF found # Undefined
    THEN ReuseMatch(st, match, found)
    ELSE MintMatch(st, match, normalizedValue,
                   generatePlaceholder(match.type, st.counters), documentUri)

AnonymizeNormalized(st, match, normalizedValue, documentUri) ==
    AnonymizeFound(st, match, normalizedValue,
                   LookupPlaceholder(st.reverseIndex, match.value, normalizedValue),
                   documentUri)

\* one iteration of the loop over matches in Anonymizer.anonymize; st holds
\* result, offset, newEntries and the mapping's reverseIndex and counters
AnonymizeMatch(st, match, documentUri) ==
    AnonymizeNormalized(st, match, normalizeNameForLookup(match.value, match.type),
                        documentUri)

RECURSIVE AnonymizeLoop(_, _, _, _)
AnonymizeLoop(matches, n, st, documentUri) ==
    IF n > Len(matches) THEN st
    ELSE AnonymizeLoop(matches, n + 1, AnonymizeMatch(st, matches[n], documentUri), documentUri)

\* Anonymizer.anonymize(text, matches, mapping, documentUri) with isYamlFile
\* false: the result, the new entries, and the mapping as the call leaves it
\* (the call writes reverseIndex and counters, never entries).  createdAt, a
\* time stamp, is left out of an entry.
anonymize(txt, matches, mapping, documentUri) ==
    LET st == AnonymizeLoop(matches, 1,
                            [result |-> txt, offset |-> 0, newEntries |-> <<>>,
                             reverseIndex |-> mapping.reverseIndex,
                             counters |-> mapping.counters],
                            documentUri)
    IN  [result |-> st.result, newEntries |-> st.newEntries,
         mapping |-> [entries |-> mapping.entries, reverseIndex |-> st.reverseIndex,
                      counters |-> st.counters]]

----------------------------------------------------------------------------
(* The placeholder grammar and restoration.                                *)

\* /\[(NAME|PHONE|EMAIL|ADDRESS|MYNUMBER|DOB)_\d{3}\]/
placeholderPattern ==
    ReCat(<<ReChar("["),
            ReAlt(<<ReLit(TypeChars["NAME"]), ReLit(TypeChars["PHONE"]),
                    ReLit(TypeChars["EMAIL"]), ReLit(TypeChars["ADDRESS"]),
                    ReLit(TypeChars["MYNUMBER"]), ReLit(TypeChars["DOB"])>>),
            ReChar("_"), ReRep(ReSet(Digit), 3, 3), ReChar("]")>>)

\* Anonymizer.containsPlaceholder: RegExp.prototype.test without the g flag
containsPlaceholder(txt) == RegExpExec(placeholderPattern, txt, 0).found

\* a restoration that drops the placeholders it has no entry for
ReplacementDroppingUnknown(ents, match) ==
    IF MapHas(ents, match) THEN MapGet(ents, match).original ELSE <<>>

\* the callback of `content.replace(placeholderPattern, (match) => ...)`:
\* the entry's original when the forward map has the matched string as a key,
\* the matched string otherwise
Replacement(ents, match) ==
    IF MapHas(ents, match) THEN MapGet(ents, match).original ELSE match

\* String.prototype.replace for the matches ms of a g-flag pattern; pos is
\* the 0-based offset up to which the text is already copied
RECURSIVE ReplaceMatches(_, _, _, _, _)
ReplaceMatches(txt, ms, n, pos, ents) ==
    IF n > Len(ms) THEN Slice(txt, pos, Len(txt))
    ELSE Slice(txt, pos, ms[n].index)
         \o Replacement(ents, Slice(txt, ms[n].index, ms[n].end))
         \o ReplaceMatches(txt, ms, n + 1, ms[n].end, ents)

\* applyMappingToFile: the new content of a text file
applyMappingToFile(content, mapping) ==
    ReplaceMatches(content, ExecAll(placeholderPattern, content, 0), 1, 0, mapping.entries)

\* Deanonymizer.deanonymize(text, mapping): every substring matching the fixed
\* placeholder grammar is replaced by the forward-mapped original value if
\* present in the mapping, else left unchanged
deanonymize(txt, mapping) ==
    ReplaceMatches(txt, ExecAll(placeholderPattern, txt, 0), 1, 0, mapping.entries)

----------------------------------------------------------------------------
(* MappingService: the session mapping held in memory.                     *)

\* a registration that keys the reverse index by the placeholder
RECURSIVE addEntriesKeyedByPlaceholder(_, _)
addEntriesKeyedByPlaceholder(mapping, es) ==
    IF es = <<>> THEN mapping
    ELSE addEntriesKeyedByPlaceholder(
             [mapping EXCEPT
                 !.entries = MapSet(@, Head(es).placeholder, Head(es)),
                 !.reverseIndex = MapSet(MapDelete(@, Head(es).original),
                                         Head(es).placeholder, Head(es).placeholder)],
             Tail(es))

\* MappingService.addEntries
RECURSIVE addEntries(_, _)
addEntries(mapping, es) ==
    IF es = <<>> THEN mapping
    ELSE addEntries([mapping EXCEPT
                        !.entries = MapSet(@, Head(es).placeholder, Head(es)),
                        !.reverseIndex = MapSet(@, Head(es).original, Head(es).placeholder)],
                    Tail(es))

\* a removal that gives the removed number back to its category
removeEntryReleasingNumber(mapping, placeholder) ==
    IF ~MapHas(mapping.entries, placeholder) THEN mapping
    ELSE [entries |-> MapDelete(mapping.entries, placeholder),
          reverseIndex |-> MapDelete(mapping.reverseIndex,
                                     MapGet(mapping.entries, placeholder).original),
          counters |-> MapSet(mapping.counters, MapGet(mapping.entries, placeholder).type,
                              CounterOf(mapping.counters,
                                        MapGet(mapping.entries, placeholder).type) - 1)]

\* MappingService.removeEntry: the mapping it leaves
removeEntry(mapping, placeholder) ==
    IF ~MapHas(mapping.entries, placeholder) THEN mapping
    ELSE [mapping EXCEPT
            !.entries = MapDelete(@, placeholder),
            !.reverseIndex = MapDelete(@, MapGet(mapping.entries, placeholder).original)]

\* MappingService.clear
clear(mapping) == createEmptyMapping

----------------------------------------------------------------------------
(* MappingStorage: the persisted mapping.                                  *)

\* MappingStorage.saveMapping: the entries array of the stored document
saveMapping(mapping) ==
    [i \in DOMAIN mapping.entries |->
        [placeholder |-> mapping.entries[i].val.placeholder,
         original |-> mapping.entries[i].val.original,
         type |-> mapping.entries[i].val.type,
         sourceFile |-> mapping.entries[i].val.documentUri]]

\* /\[([A-Z]+)_(\d+)\]/ with its two groups, as String.prototype.match
\* reports them for the first match: the tag and the digits
storedPlaceholderPattern ==
    ReCat(<<ReChar("["), ReRep(ReSet(UpperLetter), 1, -1), ReChar("_"),
            ReRep(ReSet(Digit), 1, -1), ReChar("]")>>)

\* the two groups of a match m of storedPlaceholderPattern in placeholder:
\* the tag ends at the one "_" of the match, no tag holding one
GroupsOfMatch(body) ==
    LET us == CHOOSE i \in DOMAIN body : body[i] = "_"
    IN  [found |-> TRUE, tag |-> SubSeq(body, 1, us - 1),
         digits |-> SubSeq(body, us + 1, Len(body))]

GroupsOf(placeholder, m) ==
    IF ~m.found THEN [found |-> FALSE, tag |-> <<>>, digits |-> <<>>]
    ELSE GroupsOfMatch(Slice(placeholder, m.index + 1, m.end - 1))

PlaceholderGroups(placeholder) ==
    GroupsOf(placeholder, RegExpExec(storedPlaceholderPattern, placeholder, 0))

\* the PIIType whose name is the tag, or the tag itself when there is none
TagType(tag) ==
    IF \E ty \in PIIType : TypeChars[ty] = tag
    THEN CHOOSE ty \in PIIType : TypeChars[ty] = tag
    ELSE tag

\* a counter update that counts the entries of a category
LoadCounterCounting(cs, g, type, num) ==
    IF g.found THEN MapSet(cs, type, CounterOf(cs, type) + 1) ELSE cs

\* the counter update of loadMapping for a placeholder with groups g
LoadCounter(cs, g, type, num) ==
    IF g.found /\ num > CounterOf(cs, type) THEN MapSet(cs, type, num) ELSE cs

\* a reverseIndex update that registers the original alone
LoadReverseOriginalOnly(rev, st, normalized) == MapSet(rev, st.original, st.placeholder)

\* the reverseIndex update of loadMapping for a stored entry
LoadReverse(rev, st, normalized) ==
    IF st.type = "NAME" /\ normalized # st.original
    THEN MapSet(MapSet(rev, st.original, st.placeholder), normalized, st.placeholder)
    ELSE MapSet(rev, st.original, st.placeholder)

LoadEntryWith(mapping, st, g) ==
    [entries |-> MapSet(mapping.entries, st.placeholder,
                        [placeholder |-> st.placeholder, original |-> st.original,
                         type |-> st.type, documentUri |-> st.sourceFile]),
     reverseIndex |-> LoadReverse(mapping.reverseIndex, st,
                                  SelectSeq(st.original, LAMBDA c : c \notin WhiteSpace)),
     counters |-> LoadCounter(mapping.counters, g, TagType(g.tag), parseInt(g.digits))]

\* one iteration of the loop over the stored entries in loadMapping
LoadEntry(mapping, st) == LoadEntryWith(mapping, st, PlaceholderGroups(st.placeholder))

RECURSIVE LoadEntries(_, _)
LoadEntries(mapping, sts) ==
    IF sts = <<>> THEN mapping ELSE LoadEntries(LoadEntry(mapping, Head(sts)), Tail(sts))

\* MappingStorage.loadMapping of a parsable document with these entries
loadMapping(sts) ==
    LoadEntries([entries |-> EmptyMap, reverseIndex |-> EmptyMap,
                 counters |-> [i \in DOMAIN PIITypeValues |->
                                 [key |-> PIITypeValues[i], val |-> 0]]],
                sts)

----------------------------------------------------------------------------
(* PatternRegistry: the detection rules.  A rule is a record of its type,  *)
(* its regular expressions, enabled, priority and contextRequired; a rule  *)
(* written without contextRequired has it FALSE (undefined is falsy).      *)

AlNum == Digit \cup LowerLetter \cup UpperLetter

ReDigits(lo, hi) == ReRep(ReSet(Digit), lo, hi)

ReKanji(lo, hi) == ReRep(ReSet(Kanji), lo, hi)

ReKatakana(lo, hi) == ReRep(ReSet(Katakana), lo, hi)

\* (19|20)\d{2}
ReYear == ReCat(<<ReAlt(<<ReLit(<<"1", "9">>), ReLit(<<"2", "0">>)>>), ReDigits(2, 2)>>)

\* (0?[1-9]|1[0-2])
ReMonth ==
    ReAlt(<<ReCat(<<ReOpt(ReChar("0")), ReSet(Digit \ {"0"})>>),
            ReCat(<<ReChar("1"), ReSet({"0", "1", "2"})>>)>>)

\* ([12]\d|3[01]|0?[1-9])
ReDay ==
    ReAlt(<<ReCat(<<ReSet({"1", "2"}), ReSet(Digit)>>),
            ReCat(<<ReChar("3"), ReSet({"0", "1"})>>),
            ReCat(<<ReOpt(ReChar("0")), ReSet(Digit \ {"0"})>>)>>)

\* (Meiji|Taisho|Showa|Heisei|Reiwa), the era names
ReEra ==
    ReAlt(<<ReLit(<<"u660e", "u6cbb">>), ReLit(<<"u5927", "u6b63">>), ReLit(<<"u662d", "u548c">>),
            ReLit(<<"u5e73", "u6210">>), ReLit(<<"u4ee4", "u548c">>)>>)

\* [/\-]
ReDateSep == ReSet({"/", "-"})

PhonePatterns ==
    <<  \* /0\d{1,4}-\d{1,4}-\d{4}(?:-\d{1,6})?/g
        ReCat(<<ReChar("0"), ReDigits(1, 4), ReChar("-"), ReDigits(1, 4), ReChar("-"),
                ReDigits(4, 4), ReOpt(ReCat(<<ReChar("-"), ReDigits(1, 6)>>))>>),
        \* /0[789]0-\d{4}-\d{4}/g
        ReCat(<<ReChar("0"), ReSet({"7", "8", "9"}), ReChar("0"), ReChar("-"),
                ReDigits(4, 4), ReChar("-"), ReDigits(4, 4)>>),
        \* /0\d{9,10}/g
        ReCat(<<ReChar("0"), ReDigits(9, 10)>>) >>

EmailPatterns ==
    <<  \* /[a-zA-Z0-9._%+-]+@[a-zA-Z0-9.-]+\.[a-zA-Z]{2,}/g
        ReCat(<<ReRep(ReSet(AlNum \cup {".", "_", "%", "+", "-"}), 1, -1), ReChar("@"),
                ReRep(ReSet(AlNum \cup {".", "-"}), 1, -1), ReChar("."),
                ReRep(ReSet(LowerLetter \cup UpperLetter), 2, -1)>>) >>

MyNumberPatterns ==
    <<  \* /\b\d{4}[ -]\d{4}[ -]\d{4}\b/g
        ReCat(<<ReWb, ReDigits(4, 4), ReSet({" ", "-"}), ReDigits(4, 4),
                ReSet({" ", "-"}), ReDigits(4, 4), ReWb>>),
        \* /\b\d{12}\b/g
        ReCat(<<ReWb, ReDigits(12, 12), ReWb>>) >>

DobPatterns ==
    <<  \* /(19|20)\d{2}[/\-](0?[1-9]|1[0-2])[/\-]([12]\d|3[01]|0?[1-9])/g
        ReCat(<<ReYear, ReDateSep, ReMonth, ReDateSep, ReDay>>),
        \* (19|20)\d{2} U+5E74 (0?[1-9]|1[0-2]) U+6708 ([12]\d|3[01]|0?[1-9]) U+65E5
        ReCat(<<ReYear, ReChar("u5e74"), ReMonth, ReChar("u6708"), ReDay, ReChar("u65e5")>>),
        \* (era)\d{1,2} U+5E74 (0?[1-9]|1[0-2]) U+6708 ([12]\d|3[01]|0?[1-9]) U+65E5
        ReCat(<<ReEra, ReDigits(1, 2), ReChar("u5e74"), ReMonth, ReChar("u6708"), ReDay,
                ReChar("u65e5")>>) >>

\* (Tokyo-to|Hokkai-do|(?:Kyoto|Osaka)-fu|[^\s]{2,3}-ken), the prefectures
RePrefecture ==
    ReAlt(<<ReLit(<<"u6771", "u4eac", "u90fd">>), ReLit(<<"u5317", "u6d77", "u9053">>),
            ReCat(<<ReAlt(<<ReLit(<<"u4eac", "u90fd">>), ReLit(<<"u5927", "u962a">>)>>), ReChar("u5e9c")>>),
            ReCat(<<ReRep(ReNset(WhiteSpace), 2, 3), ReChar("u770c")>>)>>)

AddressPatterns ==
    <<  \* /(U+3012)?\d{3}-\d{4}/g
        ReCat(<<ReOpt(ReChar("u3012")), ReDigits(3, 3), ReChar("-"), ReDigits(4, 4)>>),
        \* /(prefecture)[^\s,(U+3001)(U+3002)\n]{2,}/g
        ReCat(<<RePrefecture,
                ReRep(ReNset(WhiteSpace \cup {",", "u3001", "u3002", "\n"}), 2, -1)>>) >>

\* [(U+3000)\s,"\x5b\x5d{}():,(U+3001)(U+3002)#\n(eight hiragana particles)]
NameBoundary ==
    WhiteSpace \cup {"u3000", ",", "\"", "[", "]", "{", "}", "(", ")", ":", "u3001", "u3002",
                     "#", "\n"} \cup {"u306f", "u304c", "u3092", "u306b", "u306e", "u3078", "u3068", "u3067"}

NamePatterns ==
    <<  \* /(?<=[(U+3000)\s,"\x5b]|^)[kanji]{2,4}[(U+3000)\s][kanji]{1,4}
        \*  (?=[(U+3000)\s,(U+3001)(U+3002)"(U+FF08)(\n\x5d]|$)/g
        ReCat(<<ReBehind(ReAlt(<<ReSet(WhiteSpace \cup {"u3000", ",", "\"", "["}), ReBol>>)),
                ReKanji(2, 4), ReSet(WhiteSpace \cup {"u3000"}), ReKanji(1, 4),
                ReAhead(ReAlt(<<ReSet(WhiteSpace \cup {"u3000", ",", "u3001", "u3002", "\"",
                                                       "uff08", "(", "\n", "]"}),
                                ReEol>>))>>),
        \* /(?<=[,"\s(U+3000)\x5b]|^)[kanji]{3,8}(?=[(U+FF08)(])/g
        ReCat(<<ReBehind(ReAlt(<<ReSet(WhiteSpace \cup {",", "\"", "u3000", "["}), ReBol>>)),
                ReKanji(3, 8), ReAhead(ReSet({"uff08", "("}))>>),
        \* /(?<=["(U+300C)(U+300E)])[kanji]{4,6}(?=["(U+300D)(U+300F)])/g
        ReCat(<<ReBehind(ReSet({"\"", "u300c", "u300e"})), ReKanji(4, 6),
                ReAhead(ReSet({"\"", "u300d", "u300f"}))>>),
        \* /(?<=[boundary]|^)[kanji]{3,8}(?=[boundary]|$)/g
        ReCat(<<ReBehind(ReAlt(<<ReSet(NameBoundary), ReBol>>)), ReKanji(3, 8),
                ReAhead(ReAlt(<<ReSet(NameBoundary), ReEol>>))>>),
        \* /[katakana]{2,6}[(U+3000)\s][katakana]{2,6}/g
        ReCat(<<ReKatakana(2, 6), ReSet(WhiteSpace \cup {"u3000"}), ReKatakana(2, 6)>>),
        \* /(?<![katakana])[katakana]{4,10}(?![katakana])/g
        ReCat(<<ReNotBehind(ReSet(Katakana)), ReKatakana(4, 10),
                ReNotAhead(ReSet(Katakana))>>) >>

DEFAULT_PATTERNS ==
    << [type |-> "PHONE", patterns |-> PhonePatterns, enabled |-> TRUE,
        priority |-> 10, contextRequired |-> FALSE],
       [type |-> "EMAIL", patterns |-> EmailPatterns, enabled |-> TRUE,
        priority |-> 20, contextRequired |-> FALSE],
       [type |-> "MYNUMBER", patterns |-> MyNumberPatterns, enabled |-> TRUE,
        priority |-> 30, contextRequired |-> FALSE],
       [type |-> "DOB", patterns |-> DobPatterns, enabled |-> FALSE,
        priority |-> 40, contextRequired |-> TRUE],
       [type |-> "ADDRESS", patterns |-> AddressPatterns, enabled |-> TRUE,
        priority |-> 50, contextRequired |-> FALSE],
       [type |-> "NAME", patterns |-> NamePatterns, enabled |-> TRUE,
        priority |-> 100, contextRequired |-> FALSE] >>

\* clonePattern: the same rule with a new RegExp of the same source and
\* flags for each regular expression
clonePattern(pattern) ==
    [pattern EXCEPT !.patterns = [i \in DOMAIN pattern.patterns |-> pattern.patterns[i]]]

\* Array.prototype.sort with the comparator (a, b) => a[key] - b[key]: stable
SortBy(s, key) ==
    [i \in DOMAIN s |->
        s[CHOOSE j \in DOMAIN s :
            Cardinality({k \in DOMAIN s :
                \/ s[k][key] < s[j][key]
                \/ s[k][key] = s[j][key] /\ k <= j}) = i]]

\* new PatternRegistry(customPatterns?)
NewPatternRegistry(given, customPatterns) ==
    IF given
    THEN [i \in DOMAIN customPatterns |-> clonePattern(customPatterns[i])]
    ELSE [i \in DOMAIN DEFAULT_PATTERNS |-> clonePattern(DEFAULT_PATTERNS[i])]

\* getEnabledPatterns without the context-required rules
getEnabledPatternsIgnoringContext(ps) ==
    LET kept == SelectSeq(ps, LAMBDA p : p.enabled)
        sorted == SortBy(kept, "priority")
    IN  [i \in DOMAIN sorted |-> clonePattern(sorted[i])]

getEnabledPatterns(ps) ==
    LET kept == SelectSeq(ps, LAMBDA p : p.enabled \/ p.contextRequired)
        sorted == SortBy(kept, "priority")
    IN  [i \in DOMAIN sorted |-> clonePattern(sorted[i])]

getAllPatterns(ps) == [i \in DOMAIN ps |-> clonePattern(ps[i])]

\* setEnabled that leaves contextRequired as it is
setEnabledKeepingContext(ps, type, enabled) ==
    IF \A i \in DOMAIN ps : ps[i].type # type THEN ps
    ELSE LET i == CHOOSE k \in DOMAIN ps :
                      ps[k].type = type /\ \A j \in 1..(k - 1) : ps[j].type # type
         IN  [ps EXCEPT ![i] = [@ EXCEPT !.enabled = enabled]]

\* setEnabled: the first rule of the type, when there is one
setEnabled(ps, type, enabled) ==
    IF \A i \in DOMAIN ps : ps[i].type # type THEN ps
    ELSE LET i == CHOOSE k \in DOMAIN ps :
                      ps[k].type = type /\ \A j \in 1..(k - 1) : ps[j].type # type
         IN  [ps EXCEPT ![i] =
                 [@ EXCEPT !.enabled = enabled,
                           !.contextRequired = IF ~enabled /\ @ THEN FALSE ELSE @]]

\* updateFromConfig: enabledTypes as the list Object.entries gives
RECURSIVE updateFromConfig(_, _)
updateFromConfig(ps, enabledTypes) ==
    IF enabledTypes = <<>> THEN ps
    ELSE updateFromConfig(setEnabled(ps, Head(enabledTypes).type, Head(enabledTypes).enabled),
                          Tail(enabledTypes))

reset == [i \in DOMAIN DEFAULT_PATTERNS |-> clonePattern(DEFAULT_PATTERNS[i])]

\* the keys of updatePatternSettings, in its order
patternTypes == <<"NAME", "PHONE", "EMAIL", "ADDRESS", "MYNUMBER", "DOB">>

RECURSIVE ApplySettings(_, _, _)
ApplySettings(registry, config, n) ==
    IF n > Len(patternTypes) THEN registry
    ELSE ApplySettings(setEnabled(registry, patternTypes[n], config[patternTypes[n]]),
                       config, n + 1)

\* updatePatternSettings(registry, config): setEnabled for every key, with
\* the value of the setting
updatePatternSettings(registry, config) == ApplySettings(registry, config, 1)

\* The copy of the registry under src/core: its rules differ in the first
\* PHONE expression, the order of the day alternatives, the NAME expressions
\* and DOB, which is enabled; no rule has contextRequired.

\* (0?[1-9]|[12]\d|3[01])
ReDayCore ==
    ReAlt(<<ReCat(<<ReOpt(ReChar("0")), ReSet(Digit \ {"0"})>>),
            ReCat(<<ReSet({"1", "2"}), ReSet(Digit)>>),
            ReCat(<<ReChar("3"), ReSet({"0", "1"})>>)>>)

PhonePatternsCore ==
    <<  \* /0\d{1,4}-\d{1,4}-\d{4}/g
        ReCat(<<ReChar("0"), ReDigits(1, 4), ReChar("-"), ReDigits(1, 4), ReChar("-"),
                ReDigits(4, 4)>>),
        PhonePatterns[2],
        PhonePatterns[3] >>

DobPatternsCore ==
    <<  ReCat(<<ReYear, ReDateSep, ReMonth, ReDateSep, ReDayCore>>),
        ReCat(<<ReYear, ReChar("u5e74"), ReMonth, ReChar("u6708"), ReDayCore, ReChar("u65e5")>>),
        ReCat(<<ReEra, ReDigits(1, 2), ReChar("u5e74"), ReMonth, ReChar("u6708"), ReDayCore,
                ReChar("u65e5")>>) >>

NamePatternsCore ==
    <<  \* /[kanji]{1,4}[\s(U+3000)][kanji]{1,4}/g
        ReCat(<<ReKanji(1, 4), ReSet(WhiteSpace \cup {"u3000"}), ReKanji(1, 4)>>),
        \* /(?<![kanji])([kanji]{2,3})([kanji]{2,3})(?![kanji])/g
        ReCat(<<ReNotBehind(ReSet(Kanji)), ReKanji(2, 3), ReKanji(2, 3),
                ReNotAhead(ReSet(Kanji))>>) >>

DEFAULT_PATTERNS_CORE ==
    << [type |-> "PHONE", patterns |-> PhonePatternsCore, enabled |-> TRUE,
        priority |-> 10, contextRequired |-> FALSE],
       [type |-> "EMAIL", patterns |-> EmailPatterns, enabled |-> TRUE,
        priority |-> 20, contextRequired |-> FALSE],
       [type |-> "MYNUMBER", patterns |-> MyNumberPatterns, enabled |-> TRUE,
        priority |-> 30, contextRequired |-> FALSE],
       [type |-> "DOB", patterns |-> DobPatternsCore, enabled |-> TRUE,
        priority |-> 40, contextRequired |-> FALSE],
       [type |-> "ADDRESS", patterns |-> AddressPatterns, enabled |-> TRUE,
        priority |-> 50, contextRequired |-> FALSE],
       [type |-> "NAME", patterns |-> NamePatternsCore, enabled |-> TRUE,
        priority |-> 100, contextRequired |-> FALSE] >>

getEnabledPatternsCore(ps) ==
    LET kept == SelectSeq(ps, LAMBDA p : p.enabled)
        sorted == SortBy(kept, "priority")
    IN  [i \in DOMAIN sorted |-> clonePattern(sorted[i])]

setEnabledCore(ps, type, enabled) ==
    IF \A i \in DOMAIN ps : ps[i].type # type THEN ps
    ELSE LET i == CHOOSE k \in DOMAIN ps :
                      ps[k].type = type /\ \A j \in 1..(k - 1) : ps[j].type # type
         IN  [ps EXCEPT ![i] = [@ EXCEPT !.enabled = enabled]]

RECURSIVE updateFromConfigCore(_, _)
updateFromConfigCore(ps, enabledTypes) ==
    IF enabledTypes = <<>> THEN ps
    ELSE updateFromConfigCore(
             setEnabledCore(ps, Head(enabledTypes).type, Head(enabledTypes).enabled),
             Tail(enabledTypes))

resetCore == [i \in DOMAIN DEFAULT_PATTERNS_CORE |-> clonePattern(DEFAULT_PATTERNS_CORE[i])]

----------------------------------------------------------------------------
(* PIIDetector.                                                            *)

DOB_CONTEXT_KEYWORDS ==
    <<<<"u751f", "u5e74", "u6708", "u65e5">>, <<"u8a95", "u751f", "u65e5">>, <<"u751f", "u307e", "u308c">>, <<"u51fa", "u751f", "u65e5">>,
      <<"D", "O", "B">>, <<"d", "o", "b">>, <<"b", "i", "r", "t", "h", "d", "a", "y">>, <<"b", "i", "r", "t", "h", "d", "a", "t", "e">>, <<"b", "i", "r", "t", "h", "_", "d", "a", "t", "e">>,
      <<"d", "a", "t", "e", "_", "o", "f", "_", "b", "i", "r", "t", "h">>, <<"d", "a", "t", "e", "O", "f", "B", "i", "r", "t", "h">>>>

NAME_EXCLUSION_WORDS ==
    <<<<"u751f", "u5e74", "u6708", "u65e5">>, <<"u8a95", "u751f", "u65e5">>, <<"u96fb", "u8a71", "u756a", "u53f7">>, <<"u4f4f", "u6240">>, <<"u6c0f", "u540d">>, <<"u540d", "u524d">>, <<"u62c5", "u5f53", "u8005">>,
      <<"u4f5c", "u6210", "u65e5">>, <<"u66f4", "u65b0", "u65e5">>, <<"u767b", "u9332", "u65e5">>, <<"u958b", "u59cb", "u65e5">>, <<"u7d42", "u4e86", "u65e5">>, <<"u6709", "u52b9", "u671f", "u9650">>,
      <<"u90e8", "u7f72", "u540d">>, <<"u6240", "u5c5e">>, <<"u8077", "u7a2e">>, <<"u5f79", "u8077">>, <<"u78ba", "u5b9a">>, <<"u672a", "u78ba", "u5b9a">>, <<"u4eee", "u78ba", "u5b9a">>,
      <<"u8a3a", "u65ad", "u79d1">>, <<"u8a3a", "u7642", "u79d1">>, <<"u653e", "u5c04", "u7dda">>, <<"u5185", "u79d1">>, <<"u5916", "u79d1">>, <<"u6574", "u5f62", "u5916", "u79d1">>,
      <<"u5c0f", "u5150", "u79d1">>, <<"u7523", "u5a66", "u4eba", "u79d1">>, <<"u76ae", "u819a", "u79d1">>, <<"u773c", "u79d1">>, <<"u8033", "u9f3b", "u79d1">>, <<"u6ccc", "u5c3f", "u5668", "u79d1">>,
      <<"u7cbe", "u795e", "u79d1">>, <<"u5fc3", "u7642", "u5185", "u79d1">>, <<"u6551", "u6025", "u79d1">>, <<"u9ebb", "u9154", "u79d1">>, <<"u75c5", "u7406", "u8a3a", "u65ad">>,
      <<"u5f53", "u76f4">>, <<"u65e5", "u4ed8">>, <<"u6642", "u523b">>, <<"u5099", "u8003">>, <<"u9023", "u7d61", "u5148">>, <<"u7dca", "u6025", "u9023", "u7d61">>,
      <<"u4e88", "u5b9a">>, <<"u5b9f", "u7e3e">>, <<"u72b6", "u614b">>, <<"u7a2e", "u5225">>, <<"u533a", "u5206">>, <<"u5206", "u985e">>,
      <<"u30de", "u30a4", "u30ca", "u30f3", "u30d0", "u30fc">>, <<"u500b", "u4eba", "u756a", "u53f7">>, <<"u30b3", "u30e1", "u30f3", "u30c8">>>>

YAML_NAME_KEYS ==
    <<<<"n", "a", "m", "e">>, <<"d", "i", "s", "p", "l", "a", "y", "_", "n", "a", "m", "e">>, <<"s", "h", "o", "r", "t", "_", "n", "a", "m", "e">>, <<"f", "u", "l", "l", "_", "n", "a", "m", "e">>,
      <<"u6c0f", "u540d">>, <<"u540d", "u524d">>, <<"u62c5", "u5f53", "u8005">>, <<"u59d3">>, <<"u540d">>>>

\* String.prototype.includes
includes(s, sub) ==
    \E i \in 0..(Len(s) - Len(sub)) : SubSeq(s, i + 1, i + Len(sub)) = sub

\* String.prototype.indexOf: the first occurrence, -1 when there is none
indexOf(s, sub) ==
    IF includes(s, sub)
    THEN CHOOSE i \in 0..(Len(s) - Len(sub)) :
            /\ SubSeq(s, i + 1, i + Len(sub)) = sub
            /\ \A j \in 0..(i - 1) : SubSeq(s, j + 1, j + Len(sub)) # sub
    ELSE -1

\* String.prototype.split on a one-character separator
RECURSIVE split(_, _)
split(s, sep) ==
    IF sep \notin Range(s) THEN <<s>>
    ELSE LET i == CHOOSE k \in DOMAIN s : s[k] = sep /\ \A j \in 1..(k - 1) : s[j] # sep
         IN  <<SubSeq(s, 1, i - 1)>> \o split(SubSeq(s, i + 1, Len(s)), sep)

\* String.prototype.trim
RECURSIVE trim(_)
trim(s) ==
    IF s = <<>> THEN s
    ELSE IF Head(s) \in WhiteSpace THEN trim(Tail(s))
    ELSE IF s[Len(s)] \in WhiteSpace THEN trim(SubSeq(s, 1, Len(s) - 1))
    ELSE s

\* analyzeDOBContext: the line numbers with a birth-date context
analyzeDOBContext(txt) ==
    LET lines == split(txt, "\n")
        headerLine == lines[1]
        isCSV == "," \in Range(headerLine)
        isTSV == "\t" \in Range(headerLine)
        delimiter == IF isCSV THEN "," ELSE "\t"
        headers == split(headerLine, delimiter)
        dobColumnIndices ==
            {index \in DOMAIN headers :
                \E k \in DOMAIN DOB_CONTEXT_KEYWORDS :
                    includes(toLowerCase(trim(headers[index])),
                             toLowerCase(DOB_CONTEXT_KEYWORDS[k]))}
    IN  IF (isCSV \/ isTSV) /\ dobColumnIndices # {}
        THEN 0..(Len(lines) - 1)
        ELSE {}

\* value.trim().replace(/^["(U+300C)(U+300E)]|["(U+300D)(U+300F)]$/g, '')
StripQuotes(s) ==
    LET t == IF s # <<>> /\ Head(s) \in {"\"", "u300c", "u300e"} THEN Tail(s) ELSE s
    IN  IF t # <<>> /\ t[Len(t)] \in {"\"", "u300d", "u300f"}
        THEN SubSeq(t, 1, Len(t) - 1)
        ELSE t

isExcludedName(value) ==
    \E k \in DOMAIN NAME_EXCLUSION_WORDS : NAME_EXCLUSION_WORDS[k] = StripQuotes(trim(value))

\* hasDOBContext with only the header context
hasDOBContextOfHeader(txt, position, contextLines) ==
    (Len(split(SubSeq(txt, 1, position), "\n")) - 1) \in contextLines

hasDOBContext(txt, position, contextLines) ==
    LET lineNumber == Len(split(SubSeq(txt, 1, position), "\n")) - 1
        lines == split(txt, "\n")
    IN  \/ lineNumber \in contextLines
        \/ /\ lineNumber < Len(lines)
           /\ \E k \in DOMAIN DOB_CONTEXT_KEYWORDS :
                 includes(toLowerCase(lines[lineNumber + 1]),
                          toLowerCase(DOB_CONTEXT_KEYWORDS[k]))

\* overlapsExisting looking only at where the range starts
overlapsExistingAtStart(matches, start, end) ==
    \E i \in DOMAIN matches : start >= matches[i].startIndex /\ start < matches[i].endIndex

overlapsExisting(matches, start, end) ==
    \E i \in DOMAIN matches :
        ~(end <= matches[i].startIndex \/ start >= matches[i].endIndex)

\* the body of the loop over the matches of one regular expression in detect
DetectMatch(matches, txt, piiPattern, m, dobContextLines) ==
    IF /\ ~piiPattern.enabled /\ piiPattern.contextRequired
       /\ piiPattern.type = "DOB"
       /\ ~hasDOBContext(txt, m.index, dobContextLines)
    THEN matches
    ELSE IF piiPattern.type = "NAME" /\ isExcludedName(Slice(txt, m.index, m.end))
    THEN matches
    ELSE IF ~overlapsExisting(matches, m.index, m.end)
    THEN Append(matches, [type |-> piiPattern.type, value |-> Slice(txt, m.index, m.end),
                          startIndex |-> m.index, endIndex |-> m.end])
    ELSE matches

RECURSIVE DetectMatches(_, _, _, _, _, _)
DetectMatches(matches, txt, piiPattern, ms, n, dobContextLines) ==
    IF n > Len(ms) THEN matches
    ELSE DetectMatches(DetectMatch(matches, txt, piiPattern, ms[n], dobContextLines),
                       txt, piiPattern, ms, n + 1, dobContextLines)

\* the loop over the regular expressions of one rule
RECURSIVE DetectRegexes(_, _, _, _, _)
DetectRegexes(matches, txt, piiPattern, k, dobContextLines) ==
    IF k > Len(piiPattern.patterns) THEN matches
    ELSE DetectRegexes(
             DetectMatches(matches, txt, piiPattern,
                           ExecAll(piiPattern.patterns[k], txt, 0), 1, dobContextLines),
             txt, piiPattern, k + 1, dobContextLines)

\* the loop over the sorted rules
RECURSIVE DetectPatterns(_, _, _, _, _)
DetectPatterns(matches, txt, sortedPatterns, k, dobContextLines) ==
    IF k > Len(sortedPatterns) THEN matches
    ELSE DetectPatterns(
             DetectRegexes(matches, txt, sortedPatterns[k], 1, dobContextLines),
             txt, sortedPatterns, k + 1, dobContextLines)

\* the regular expressions of detectYamlNameFields for a key, under the
\* flags g and i, in three parts: key:\s*["']? then group 1 then
\* ["']?\s*(?:#|$|\n|,|\})
YamlKey(keyName) ==
    ReCat(<<ReLitI(keyName), ReChar(":"), ReRep(ReSet(WhiteSpace), 0, -1),
            ReOpt(ReSet({"\"", "'"}))>>)

YamlValues == <<ReKanji(2, 4), ReKatakana(2, 6)>>

YamlEnd ==
    ReCat(<<ReOpt(ReSet({"\"", "'"})), ReRep(ReSet(WhiteSpace), 0, -1),
            ReAlt(<<ReChar("#"), ReEol, ReChar("\n"), ReChar(","), ReChar("}")>>)>>)

\* the first way, in the order of a backtracking engine, to match key, group
\* and end in sequence from position i: the positions where group 1 starts
\* and ends and where the match ends
GroupMatchAt(key, group, end, t, i) ==
    LET ks == Ends(key, t, i)
        ways == {w \in UNION {{<<n, m>> : m \in DOMAIN Ends(group, t, ks[n])} : n \in DOMAIN ks} :
                    Ends(end, t, Ends(group, t, ks[w[1]])[w[2]]) # <<>>}
        first == CHOOSE w \in ways :
                    \A v \in ways : w[1] < v[1] \/ (w[1] = v[1] /\ w[2] <= v[2])
    IN  IF ways = {} THEN [found |-> FALSE]
        ELSE [found |-> TRUE,
              g0 |-> ks[first[1]] - 1,
              g1 |-> Ends(group, t, ks[first[1]])[first[2]] - 1,
              end |-> Ends(end, t, Ends(group, t, ks[first[1]])[first[2]])[1] - 1]

\* RegExp.prototype.exec with group 1, from lastIndex
RECURSIVE GroupExec(_, _, _, _, _)
GroupExec(key, group, end, t, lastIndex) ==
    IF lastIndex > Len(t) THEN [found |-> FALSE]
    ELSE IF Ends(key, t, lastIndex + 1) = <<>>
    THEN GroupExec(key, group, end, t, lastIndex + 1)
    ELSE LET m == GroupMatchAt(key, group, end, t, lastIndex + 1)
         IN  IF m.found
             THEN [found |-> TRUE, index |-> lastIndex, g0 |-> m.g0, g1 |-> m.g1, end |-> m.end]
             ELSE GroupExec(key, group, end, t, lastIndex + 1)

RECURSIVE GroupExecAll(_, _, _, _, _)
GroupExecAll(key, group, end, t, lastIndex) ==
    LET m == GroupExec(key, group, end, t, lastIndex)
    IN  IF ~m.found THEN <<>>
        ELSE <<m>> \o GroupExecAll(key, group, end, t, m.end)

\* the loop body of detectYamlNameFields without the check against the
\* matches of the pattern pass
YamlMatchAtAmongAdditional(additionalMatches, txt, existingMatches, value, valueStart) ==
    IF isExcludedName(value) THEN additionalMatches
    ELSE IF ~overlapsExisting(additionalMatches, valueStart, valueStart + Len(value))
    THEN Append(additionalMatches,
                [type |-> "NAME", value |-> value,
                 startIndex |-> valueStart, endIndex |-> valueStart + Len(value)])
    ELSE additionalMatches

\* the body of the loop over the matches of one regular expression in
\* detectYamlNameFields
YamlMatchAt(additionalMatches, txt, existingMatches, value, valueStart) ==
    IF isExcludedName(value) THEN additionalMatches
    ELSE IF /\ ~overlapsExisting(existingMatches, valueStart, valueStart + Len(value))
            /\ ~overlapsExisting(additionalMatches, valueStart, valueStart + Len(value))
    THEN Append(additionalMatches,
                [type |-> "NAME", value |-> value,
                 startIndex |-> valueStart, endIndex |-> valueStart + Len(value)])
    ELSE additionalMatches

YamlMatch(additionalMatches, txt, existingMatches, m) ==
    YamlMatchAt(additionalMatches, txt, existingMatches, Slice(txt, m.g0, m.g1),
                m.index + indexOf(Slice(txt, m.index, m.end), Slice(txt, m.g0, m.g1)))

RECURSIVE YamlMatches(_, _, _, _, _)
YamlMatches(additionalMatches, txt, existingMatches, ms, n) ==
    IF n > Len(ms) THEN additionalMatches
    ELSE YamlMatches(YamlMatch(additionalMatches, txt, existingMatches, ms[n]),
                     txt, existingMatches, ms, n + 1)

\* the loops over YAML_NAME_KEYS and the two expressions of a key: step
\* 2k - 1 is the kanji expression of key k, step 2k its katakana expression
RECURSIVE YamlKeys(_, _, _, _)
YamlKeys(additionalMatches, txt, existingMatches, step) ==
    IF step > 2 * Len(YAML_NAME_KEYS) THEN additionalMatches
    ELSE YamlKeys(
             YamlMatches(additionalMatches, txt, existingMatches,
                         GroupExecAll(YamlKey(YAML_NAME_KEYS[(step + 1) \div 2]),
                                      YamlValues[2 - (step % 2)], YamlEnd, txt, 0),
                         1),
             txt, existingMatches, step + 1)

detectYamlNameFields(txt, existingMatches) ==
    YamlKeys(<<>>, txt, existingMatches, 1)

\* the end of detect: the matches of both passes, sorted by startIndex
DetectSorted(matches, txt) ==
    SortBy(matches \o detectYamlNameFields(txt, matches), "startIndex")

\* PIIDetector.detect with this.patterns = ps
detect(ps, txt) ==
    DetectSorted(
        DetectPatterns(<<>>, txt,
                       SortBy(SelectSeq(ps, LAMBDA p : p.enabled \/ p.contextRequired),
                              "priority"),
                       1, analyzeDOBContext(txt)),
        txt)

----------------------------------------------------------------------------
(* Anonymizer: the pass over a YAML text that quotes the scalars starting  *)
(* with a placeholder.  Offsets are those of the code (0-based); CharAt    *)
(* gives "" where JavaScript gives undefined.                              *)

CharAt(s, i) == IF i >= 0 /\ i < Len(s) THEN s[i + 1] ELSE ""

\* /\s/.test(ch)
IsSpace(ch) == ch \in WhiteSpace

\* `while (s < len && /\s/.test(code[s])) s++`
RECURSIVE SkipSpaces(_, _)
SkipSpaces(code, s) ==
    IF s < Len(code) /\ IsSpace(CharAt(code, s)) THEN SkipSpaces(code, s + 1) ELSE s

\* `line.match(/^\s*/)?.[0].length ?? 0`
IndentOf(line) == SkipSpaces(line, 0)

\* String.prototype.join
RECURSIVE join(_, _)
join(ss, sep) ==
    IF ss = <<>> THEN <<>>
    ELSE IF Len(ss) = 1 THEN ss[1]
    ELSE ss[1] \o <<sep>> \o join(Tail(ss), sep)

\* String.prototype.replace(/c/g, rep) for a one-character pattern
replaceChar(s, c, rep) == Flatten([i \in DOMAIN s |-> IF s[i] = c THEN rep ELSE <<s[i]>>])

\* quoteYamlString: \ and " escaped, the whole in double quotes
quoteYamlString(value) ==
    LET escaped == replaceChar(replaceChar(value, "\\", <<"\\", "\\">>), "\"", <<"\\", "\"">>)
    IN  <<"\"">> \o escaped \o <<"\"">>

\* the state of the scanner before the first character
ScanStart ==
    [inSingle |-> FALSE, inDouble |-> FALSE, singleEscaped |-> FALSE,
     doubleEscaped |-> FALSE, flowStack |-> <<>>]

\* one iteration of the scanning loop of
\* quoteYamlScalarsStartingWithPlaceholder on the character ch followed by
\* next; the loop of splitYamlComment tracks the quotes in the same way
ScanStep(st, ch, next) ==
    IF st.inSingle
    THEN (IF ch = "'" /\ ~st.singleEscaped
          THEN (IF next = "'" THEN [st EXCEPT !.singleEscaped = TRUE]
                ELSE [st EXCEPT !.inSingle = FALSE])
          ELSE IF ch = "'" /\ st.singleEscaped THEN [st EXCEPT !.singleEscaped = FALSE]
          ELSE st)
    ELSE IF st.inDouble
    THEN (IF st.doubleEscaped THEN [st EXCEPT !.doubleEscaped = FALSE]
          ELSE IF ch = "\\" THEN [st EXCEPT !.doubleEscaped = TRUE]
          ELSE IF ch = "\"" THEN [st EXCEPT !.inDouble = FALSE]
          ELSE st)
    ELSE IF ch = "'" THEN [st EXCEPT !.inSingle = TRUE, !.singleEscaped = FALSE]
    ELSE IF ch = "\"" THEN [st EXCEPT !.inDouble = TRUE, !.doubleEscaped = FALSE]
    ELSE IF ch \in {"[", "{"} THEN [st EXCEPT !.flowStack = Append(@, ch)]
    ELSE IF ch \in {"]", "}"}
    THEN (IF st.flowStack # <<>>
             /\ st.flowStack[Len(st.flowStack)] = (IF ch = "]" THEN "[" ELSE "{")
          THEN [st EXCEPT !.flowStack = SubSeq(@, 1, Len(@) - 1)]
          ELSE st)
    ELSE st

\* inSingleAt, inDoubleAt, flowDepthAt and flowTopAt: for each offset the
\* state before its character (flowTop "" stands for null)
RECURSIVE ScanFrom(_, _, _, _)
ScanFrom(code, i, st, acc) ==
    IF i >= Len(code) THEN acc
    ELSE ScanFrom(code, i + 1, ScanStep(st, CharAt(code, i), CharAt(code, i + 1)),
                  Append(acc, [inSingle |-> st.inSingle, inDouble |-> st.inDouble,
                               flowDepth |-> Len(st.flowStack),
                               flowTop |-> IF st.flowStack # <<>>
                                           THEN st.flowStack[Len(st.flowStack)] ELSE ""]))

Scan(code) == ScanFrom(code, 0, ScanStart, <<>>)

InQuotes(at, i) == at[i + 1].inSingle \/ at[i + 1].inDouble

\* splitYamlComment: the code and the inline comment of a line; a # starts
\* the comment when it is outside quotes and at offset 0 or after white space
RECURSIVE SplitCommentFrom(_, _, _)
SplitCommentFrom(line, i, st) ==
    IF i >= Len(line) THEN [code |-> line, comment |-> <<>>]
    ELSE IF ~st.inSingle /\ ~st.inDouble /\ CharAt(line, i) = "#"
            /\ (i = 0 \/ IsSpace(CharAt(line, i - 1)))
    THEN [code |-> Slice(line, 0, i), comment |-> Slice(line, i, Len(line))]
    ELSE SplitCommentFrom(line, i + 1,
                          [ScanStep(st, CharAt(line, i), CharAt(line, i + 1))
                              EXCEPT !.flowStack = <<>>])

splitYamlComment(line) == SplitCommentFrom(line, 0, ScanStart)

\* getBlockContentStart: past the indentation and a list dash
getBlockContentStart(code) ==
    LET idx == SkipSpaces(code, 0)
    IN  IF CharAt(code, idx) = "-" /\ (idx + 1 >= Len(code) \/ IsSpace(CharAt(code, idx + 1)))
        THEN SkipSpaces(code, idx + 1)
        ELSE idx

\* findBlockMappingSeparator: the first colon from `from` on that is outside
\* quotes, at flow depth 0 and followed by white space or the end; -1 when
\* there is none
RECURSIVE findBlockMappingSeparator(_, _, _)
findBlockMappingSeparator(code, at, from) ==
    IF from >= Len(code) THEN -1
    ELSE IF ~InQuotes(at, from) /\ at[from + 1].flowDepth = 0 /\ CharAt(code, from) = ":"
            /\ (from + 1 >= Len(code) \/ IsSpace(CharAt(code, from + 1)))
    THEN from
    ELSE findBlockMappingSeparator(code, at, from + 1)

\* findFlowScalarStart: backwards from pos - 1 to the nearest comma of the
\* depth, opening bracket of the depth below or, in a flow mapping, colon of
\* the depth; the scalar starts after it and the white space that follows
RECURSIVE FlowScalarStartFrom(_, _, _, _, _)
FlowScalarStartFrom(code, at, i, depth, container) ==
    IF i < 0 THEN 0
    ELSE IF InQuotes(at, i) THEN FlowScalarStartFrom(code, at, i - 1, depth, container)
    ELSE IF \/ CharAt(code, i) = "," /\ at[i + 1].flowDepth = depth
            \/ CharAt(code, i) \in {"[", "{"} /\ at[i + 1].flowDepth = depth - 1
            \/ container = "{" /\ CharAt(code, i) = ":" /\ at[i + 1].flowDepth = depth
    THEN SkipSpaces(code, i + 1)
    ELSE FlowScalarStartFrom(code, at, i - 1, depth, container)

findFlowScalarStart(code, at, pos, depth, container) ==
    FlowScalarStartFrom(code, at, pos - 1, depth, container)

\* findFlowScalarEnd: forwards from posAfter to the nearest comma or closing
\* bracket of the depth or, in a flow mapping, colon of the depth
RECURSIVE findFlowScalarEnd(_, _, _, _, _)
findFlowScalarEnd(code, at, posAfter, depth, container) ==
    IF posAfter >= Len(code) THEN Len(code)
    ELSE IF InQuotes(at, posAfter)
    THEN findFlowScalarEnd(code, at, posAfter + 1, depth, container)
    ELSE IF \/ CharAt(code, posAfter) = "," /\ at[posAfter + 1].flowDepth = depth
            \/ CharAt(code, posAfter) \in {"]", "}"} /\ at[posAfter + 1].flowDepth = depth
            \/ container = "{" /\ CharAt(code, posAfter) = ":"
               /\ at[posAfter + 1].flowDepth = depth
    THEN posAfter
    ELSE findFlowScalarEnd(code, at, posAfter + 1, depth, container)

\* `while (trimEnd > scalarStart && /\s/.test(code[trimEnd - 1])) trimEnd--`
RECURSIVE TrimEnd(_, _, _)
TrimEnd(code, scalarStart, trimEnd) ==
    IF trimEnd > scalarStart /\ IsSpace(CharAt(code, trimEnd - 1))
    THEN TrimEnd(code, scalarStart, trimEnd - 1)
    ELSE trimEnd

\* the end of the loop body: no range for a scalar that starts elsewhere
\* than at the placeholder or with a quote
ScalarRange(code, start, scalarStart, scalarEnd) ==
    IF scalarStart # start THEN <<>>
    ELSE IF scalarStart < Len(code) /\ CharAt(code, scalarStart) \in {"\"", "'"} THEN <<>>
    ELSE <<[start |-> scalarStart, end |-> TrimEnd(code, scalarStart, scalarEnd)]>>

\* the scalar of a placeholder outside any flow collection: the value after
\* colonIndex, the key before it, or the content of the line
BlockScalarRange(code, start, contentStart, colonIndex) ==
    IF colonIndex # -1
    THEN (IF start > colonIndex
          THEN ScalarRange(code, start, SkipSpaces(code, colonIndex + 1), Len(code))
          ELSE ScalarRange(code, start, contentStart, colonIndex))
    ELSE ScalarRange(code, start, contentStart, Len(code))

\* the body of the loop over the placeholders of the code: the range to
\* quote for the placeholder at [start, end), or none
PlaceholderRange(code, at, start, end) ==
    IF InQuotes(at, start) THEN <<>>
    ELSE IF at[start + 1].flowDepth > 0
    THEN (IF findFlowScalarStart(code, at, start, at[start + 1].flowDepth,
                                 at[start + 1].flowTop) # start
          THEN <<>>
          ELSE ScalarRange(code, start, start,
                           findFlowScalarEnd(code, at, end, at[start + 1].flowDepth,
                                             at[start + 1].flowTop)))
    ELSE BlockScalarRange(code, start, getBlockContentStart(code),
                          findBlockMappingSeparator(code, at, getBlockContentStart(code)))

RECURSIVE PlaceholderRanges(_, _, _, _)
PlaceholderRanges(code, at, ms, n) ==
    IF n > Len(ms) THEN <<>>
    ELSE PlaceholderRange(code, at, ms[n].index, ms[n].end)
         \o PlaceholderRanges(code, at, ms, n + 1)

\* `new Map` keyed by start:end, filled in the order of the ranges: the
\* values in the order of the first insertion of their key
RECURSIVE UniqueRanges(_)
UniqueRanges(ranges) ==
    IF ranges = <<>> THEN <<>>
    ELSE LET init == UniqueRanges(SubSeq(ranges, 1, Len(ranges) - 1))
         IN  IF ranges[Len(ranges)] \in Range(init) THEN init
             ELSE Append(init, ranges[Len(ranges)])

\* Array.prototype.sort with (a, b) => b.start - a.start: stable, descending
SortByStartDescending(s) ==
    [i \in DOMAIN s |->
        s[CHOOSE j \in DOMAIN s :
            Cardinality({k \in DOMAIN s :
                \/ s[k].start > s[j].start
                \/ s[k].start = s[j].start /\ k <= j}) = i]]

\* the loop that quotes the ranges from the right, each at its offsets in
\* the code as it was
RECURSIVE ApplyRanges(_, _, _)
ApplyRanges(updated, ordered, n) ==
    IF n > Len(ordered) THEN updated
    ELSE ApplyRanges(Slice(updated, 0, ordered[n].start)
                     \o quoteYamlString(Slice(updated, ordered[n].start, ordered[n].end))
                     \o Slice(updated, ordered[n].end, Len(updated)),
                     ordered, n + 1)

QuoteRanges(code, ranges) ==
    IF ranges = <<>> THEN code
    ELSE ApplyRanges(code, SortByStartDescending(UniqueRanges(ranges)), 1)

quoteYamlScalarsStartingWithPlaceholder(code) ==
    IF ~containsPlaceholder(code) THEN code
    ELSE QuoteRanges(code, PlaceholderRanges(code, Scan(code),
                                             ExecAll(placeholderPattern, code, 0), 1))

ReSpaces(lo) == ReRep(ReSet(WhiteSpace), lo, -1)

\* [|>][0-9+-]*\s*(?:#.*)?$
ReBlockIndicator ==
    ReCat(<<ReSet({"|", ">"}), ReRep(ReSet(Digit \cup {"+", "-"}), 0, -1), ReSpaces(0),
            ReOpt(ReCat(<<ReChar("#"), ReRep(ReNset({"\n", "\r"}), 0, -1)>>)), ReEol>>)

\* /^(?<indent>\s*)(?:-\s+)?[^#]*:\s*[|>][0-9+-]*\s*(?:#.*)?$/ matches a line
\* when some colon of it has no # before it and \s*[|>][0-9+-]*\s*(?:#.*)?$
\* after it: ^\s*(?:-\s+)?[^#]* matches the texts without #, and no others
MatchesBlockHeader(line) ==
    \E p \in DOMAIN line :
        /\ line[p] = ":"
        /\ "#" \notin Range(SubSeq(line, 1, p - 1))
        /\ Ends(ReCat(<<ReSpaces(0), ReBlockIndicator>>), line, p + 1) # <<>>

\* /^(?<indent>\s*)-\s*[|>][0-9+-]*\s*(?:#.*)?$/
ReListBlockHeader ==
    ReCat(<<ReBol, ReSpaces(0), ReChar("-"), ReSpaces(0), ReBlockIndicator>>)

\* a header test that knows the headers under a key only
IsBlockHeaderUnderKey(line) == MatchesBlockHeader(line)

\* `blockHeaderMatch || listBlockHeaderMatch`; the group indent of either
\* expression, a greedy \s* at offset 0, is the indentation of the line
IsBlockHeader(line) ==
    MatchesBlockHeader(line) \/ Ends(ReListBlockHeader, line, 1) # <<>>

\* `line.trimStart().startsWith('#')`
IsCommentLine(line) == CharAt(line, SkipSpaces(line, 0)) = "#"

\* the last three statements of the loop body of postProcessYaml
QuoteLine(line, parts) ==
    quoteYamlScalarsStartingWithPlaceholder(parts.code) \o parts.comment

\* the loop of postProcessYaml from line i on (1-based), with inBlockScalar
\* and blockIndent as the lines before left them
RECURSIVE PostProcessLines(_, _, _, _)
PostProcessLines(lines, i, inBlockScalar, blockIndent) ==
    IF i > Len(lines) THEN <<>>
    ELSE IF inBlockScalar /\ (trim(lines[i]) = <<>> \/ IndentOf(lines[i]) >= blockIndent)
    THEN <<lines[i]>> \o PostProcessLines(lines, i + 1, TRUE, blockIndent)
    ELSE IF IsCommentLine(lines[i])
    THEN <<lines[i]>> \o PostProcessLines(lines, i + 1, FALSE, blockIndent)
    ELSE IF IsBlockHeader(lines[i])
    THEN <<lines[i]>> \o PostProcessLines(lines, i + 1, TRUE, IndentOf(lines[i]) + 1)
    ELSE IF ~containsPlaceholder(lines[i])
    THEN <<lines[i]>> \o PostProcessLines(lines, i + 1, FALSE, blockIndent)
    ELSE <<QuoteLine(lines[i], splitYamlComment(lines[i]))>>
         \o PostProcessLines(lines, i + 1, FALSE, blockIndent)

postProcessYaml(txt) == join(PostProcessLines(split(txt, "\n"), 1, FALSE, 0), "\n")

\* Anonymizer.anonymize(text, matches, mapping, documentUri, isYamlFile)
anonymizeYaml(txt, matches, mapping, documentUri, isYamlFile) ==
    IF isYamlFile
    THEN [anonymize(txt, matches, mapping, documentUri) EXCEPT !.result = postProcessYaml(@)]
    ELSE anonymize(txt, matches, mapping, documentUri)

----------------------------------------------------------------------------
(* Documents.  A document is a sequence of parts; a part is a PII value    *)
(* with its category (a match) or literal text between matches.  Its text  *)
(* is the concatenation of the parts and its match list holds the PII      *)
(* parts at their offsets: position-sorted and non-overlapping, each value *)
(* equal to the slice of the text at its range.                            *)

MaxParts == 2
MaxOps == 3
MaxRuns == 2
MaxStored == 2
MaxMatches == 3

Pii(type, value) == [pii |-> TRUE, type |-> type, value |-> value]
Lit(value) == [pii |-> FALSE, type |-> "", value |-> value]

NameSpaced == <<"u7530", "u4e2d", " ", "u592a", "u90ce">>
NameJoined == <<"u7530", "u4e2d", "u592a", "u90ce">>
NameWide == <<"u7530", "u4e2d", "u3000", "u592a", "u90ce">>
NameOther == <<"u9234", "u6728", " ", "u82b1">>
NameThird == <<"u6771", "u524d">>
PhoneValue == <<"0", "3", "-", "1", "2", "3", "4", "-", "5", "6", "7", "8">>
NearPlaceholder == <<"[", "N", "A", "M", "E", "_", "0", "1", "]">>

PartPool ==
    {Pii("NAME", NameSpaced), Pii("NAME", NameJoined), Pii("NAME", NameWide),
     Pii("PHONE", PhoneValue),
     Lit(FormatPlaceholder("NAME", 1)), Lit(FormatPlaceholder("PHONE", 999)),
     Lit(NearPlaceholder)}

CallPool ==
    {Pii("NAME", NameSpaced), Pii("NAME", NameJoined), Pii("PHONE", PhoneValue),
     Lit(FormatPlaceholder("NAME", 1)), Lit(NearPlaceholder)}

DocsOf(pool, n) == UNION {[1..k -> pool] : k \in 1..n}

Docs == DocsOf(PartPool, MaxParts)

DocText(parts) == Flatten([i \in DOMAIN parts |-> parts[i].value])

RECURSIVE DocMatchesFrom(_, _, _)
DocMatchesFrom(parts, n, pos) ==
    IF n > Len(parts) THEN <<>>
    ELSE (IF parts[n].pii
          THEN <<[type |-> parts[n].type, value |-> parts[n].value,
                  startIndex |-> pos, endIndex |-> pos + Len(parts[n].value)]>>
          ELSE <<>>)
         \o DocMatchesFrom(parts, n + 1, pos + Len(parts[n].value))

DocMatches(parts) == DocMatchesFrom(parts, 1, 0)

DocUri == "doc"

----------------------------------------------------------------------------
(* The record of the last completed operation.                             *)

getMapping == [entries |-> entries, reverseIndex |-> reverseIndex, counters |-> counters]

SetMapping(m) ==
    /\ entries' = m.entries
    /\ reverseIndex' = m.reverseIndex
    /\ counters' = m.counters

NoFile == [exists |-> FALSE, entries |-> <<>>]

NoOp ==
    [op |-> "init", parts |-> <<>>, text |-> <<>>, matches |-> <<>>, result |-> <<>>,
     newEntries |-> <<>>, arg |-> <<>>, pre |-> createEmptyMapping, file |-> NoFile]

Idle ==
    /\ patterns = <<>>
    /\ text = <<>>
    /\ detected = <<>>
    /\ disabledTypes = {}
    /\ disk = <<>>
    /\ calls = <<>>
    /\ runs = <<>>
    /\ toggled = {}

----------------------------------------------------------------------------
(* The session: the editor commands acting on the mapping the              *)
(* MappingService holds.                                                   *)

InitSession ==
    /\ flow = "session"
    /\ entries = EmptyMap
    /\ reverseIndex = EmptyMap
    /\ counters = EmptyMap
    /\ last = NoOp
    /\ nOps = 0
    /\ stored = NoFile
    /\ Idle

\* anonymizeSelection / anonymizeDocument: detect, return when nothing is
\* found, anonymize on the service's mapping, addEntries(newEntries).  The
\* detector's result is the match list of the document.
AnonymizeSelection(parts) ==
    /\ flow = "session"
    /\ nOps < MaxOps
    /\ DocMatches(parts) # <<>>
    /\ \E r \in {anonymize(DocText(parts), DocMatches(parts), getMapping, DocUri)} :
          /\ SetMapping(addEntries(r.mapping, r.newEntries))
          /\ last' = [NoOp EXCEPT !.op = "anonymize", !.parts = parts,
                                  !.text = DocText(parts), !.matches = DocMatches(parts),
                                  !.result = r.result, !.newEntries = r.newEntries,
                                  !.pre = getMapping]
    /\ nOps' = nOps + 1
    /\ UNCHANGED <<patterns, text, detected, stored, flow, disabledTypes, disk, calls, runs, toggled>>

\* deanonymizeDocument: return when the text holds no placeholder, else
\* replace the text by deanonymize(text, mapping)
DeanonymizeDocument(parts) ==
    /\ flow = "session"
    /\ nOps < MaxOps
    /\ containsPlaceholder(DocText(parts))
    /\ last' = [NoOp EXCEPT !.op = "deanonymize", !.parts = parts,
                            !.text = DocText(parts),
                            !.result = deanonymize(DocText(parts), getMapping),
                            !.pre = getMapping]
    /\ nOps' = nOps + 1
    /\ UNCHANGED <<entries, reverseIndex, counters, patterns, text, detected, stored, flow, disabledTypes, disk, calls, runs, toggled>>

\* MappingService.removeEntry(placeholder)
RemoveEntry(placeholder) ==
    /\ flow = "session"
    /\ nOps < MaxOps
    /\ SetMapping(removeEntry(getMapping, placeholder))
    /\ last' = [NoOp EXCEPT !.op = "removeEntry", !.arg = placeholder, !.pre = getMapping]
    /\ nOps' = nOps + 1
    /\ UNCHANGED <<patterns, text, detected, stored, flow, disabledTypes, disk, calls, runs, toggled>>

\* clearMapping: return when the mapping holds no entry, else (once the user
\* confirms) MappingService.clear()
ClearMapping ==
    /\ flow = "session"
    /\ nOps < MaxOps
    /\ entries # EmptyMap
    /\ SetMapping(clear(getMapping))
    /\ last' = [NoOp EXCEPT !.op = "clear", !.pre = getMapping]
    /\ nOps' = nOps + 1
    /\ UNCHANGED <<patterns, text, detected, stored, flow, disabledTypes, disk, calls, runs, toggled>>

\* the placeholders removeEntry is called with: the keys of the forward map
\* and one that is no key
RemovablePlaceholders == MapKeys(entries) \cup {FormatPlaceholder("DOB", 1)}

----------------------------------------------------------------------------
(* The folder commands: anonymizeFolder with the mapping document of the   *)
(* output folder, and the application of a mapping document to a file.     *)

StoredEntry(type, n, original) ==
    [placeholder |-> FormatPlaceholder(type, n), original |-> original,
     type |-> type, sourceFile |-> DocUri]

\* entries of mapping documents written by earlier runs: distinct
\* placeholders for distinct people, with gaps in the numbering
StoredPool ==
    {StoredEntry("NAME", 7, NameOther), StoredEntry("PHONE", 2, PhoneValue),
     StoredEntry("NAME", 999, NameThird)}

StoredFiles ==
    {NoFile} \cup
    {[exists |-> TRUE, entries |-> es] :
        es \in {f \in DocsOf(StoredPool, MaxStored) :
                   \A i, j \in DOMAIN f : i # j => f[i] # f[j]}}

InitFolder ==
    /\ flow = "folder"
    /\ stored \in StoredFiles
    /\ entries = EmptyMap
    /\ reverseIndex = EmptyMap
    /\ counters = EmptyMap
    /\ last = NoOp
    /\ nOps = 0
    /\ Idle

\* a registration that fills the reverse index alone
RegisterEntryInIndexOnly(mapping, entry) ==
    LET rev1 == MapSet(mapping.reverseIndex, entry.original, entry.placeholder)
        normalizedValue == normalizeNameForLookup(entry.original, entry.type)
    IN  [entries |-> mapping.entries,
         reverseIndex |-> IF normalizedValue # entry.original
                          THEN MapSet(rev1, normalizedValue, entry.placeholder)
                          ELSE rev1,
         counters |-> mapping.counters]

\* the registration of newEntries in the loop of anonymizeFolder
RegisterEntry(mapping, entry) ==
    LET rev1 == MapSet(mapping.reverseIndex, entry.original, entry.placeholder)
        normalizedValue == normalizeNameForLookup(entry.original, entry.type)
    IN  [entries |-> MapSet(mapping.entries, entry.placeholder, entry),
         reverseIndex |-> IF normalizedValue # entry.original
                          THEN MapSet(rev1, normalizedValue, entry.placeholder)
                          ELSE rev1,
         counters |-> mapping.counters]

RECURSIVE RegisterEntries(_, _)
RegisterEntries(mapping, es) ==
    IF es = <<>> THEN mapping
    ELSE RegisterEntries(RegisterEntry(mapping, Head(es)), Tail(es))

\* the body of the loop over the target files in anonymizeFolder: st holds
\* the mapping, the contents written and the entries minted so far
ProcessFile(st, parts) ==
    LET matches == DocMatches(parts)
        r == anonymize(DocText(parts), matches, st.mapping, DocUri)
    IN  IF matches = <<>>
        THEN [st EXCEPT !.outputs = Append(@, DocText(parts))]
        ELSE [mapping |-> RegisterEntries(r.mapping, r.newEntries),
              outputs |-> Append(st.outputs, r.result),
              newEntries |-> st.newEntries \o r.newEntries]

RECURSIVE ProcessFiles(_, _)
ProcessFiles(st, files) ==
    IF files = <<>> THEN st
    ELSE ProcessFiles(ProcessFile(st, Head(files)), Tail(files))

\* FileProcessor.anonymizeFolder over one target file: load the mapping
\* document when there is one, process the file, save the mapping when it
\* holds an entry
AnonymizeFolderFrom(parts, mapping, st) ==
    /\ SetMapping(st.mapping)
    /\ stored' = IF st.mapping.entries # EmptyMap
                 THEN [exists |-> TRUE, entries |-> saveMapping(st.mapping)]
                 ELSE stored
    /\ last' = [NoOp EXCEPT !.op = "anonymizeFolder", !.parts = parts,
                            !.text = DocText(parts), !.matches = DocMatches(parts),
                            !.result = st.outputs[1], !.newEntries = st.newEntries,
                            !.pre = mapping, !.file = stored]
    /\ nOps' = nOps + 1
    /\ UNCHANGED <<patterns, text, detected, flow, disabledTypes, disk, calls, runs, toggled>>

AnonymizeFolder(parts) ==
    /\ flow = "folder"
    /\ nOps < MaxRuns
    /\ \E mapping \in {IF stored.exists THEN loadMapping(stored.entries)
                       ELSE createEmptyMapping} :
          \E st \in {ProcessFiles([mapping |-> mapping, outputs |-> <<>>,
                                   newEntries |-> <<>>], <<parts>>)} :
             AnonymizeFolderFrom(parts, mapping, st)

\* applying a mapping document to a text file: loadMapping, then
\* applyMappingToFile
ApplyMapping(parts) ==
    /\ flow = "folder"
    /\ nOps < MaxRuns
    /\ stored.exists
    /\ containsPlaceholder(DocText(parts))
    /\ \E mapping \in {loadMapping(stored.entries)} :
          /\ SetMapping(mapping)
          /\ last' = [NoOp EXCEPT !.op = "applyMapping", !.parts = parts,
                                  !.text = DocText(parts),
                                  !.result = applyMappingToFile(DocText(parts), mapping),
                                  !.pre = mapping, !.file = stored]
    /\ nOps' = nOps + 1
    /\ UNCHANGED <<patterns, text, detected, stored, flow, disabledTypes, disk, calls, runs, toggled>>

Init == InitSession \/ InitFolder

Next ==
    \/ \E parts \in Docs : AnonymizeSelection(parts)
    \/ \E parts \in Docs : DeanonymizeDocument(parts)
    \/ \E placeholder \in RemovablePlaceholders : RemoveEntry(placeholder)
    \/ ClearMapping
    \/ \E parts \in Docs : AnonymizeFolder(parts)
    \/ \E parts \in Docs : ApplyMapping(parts)

Spec == Init /\ [][Next]_vars

----------------------------------------------------------------------------
(* One anonymize call followed by the restoration of its result: the       *)
(* inputs are a mapping left by an earlier call and a document.            *)

\* the mapping a session holds after anonymizing a document from empty
AfterCallOf(r) == addEntries(r.mapping, r.newEntries)

AfterCall(parts) ==
    AfterCallOf(anonymize(DocText(parts), DocMatches(parts), createEmptyMapping, DocUri))

CallMappings ==
    {createEmptyMapping,
     AfterCall(<<Pii("NAME", NameSpaced)>>),
     AfterCall(<<Pii("NAME", NameJoined), Pii("PHONE", PhoneValue)>>)}

CallDocs == DocsOf(CallPool, MaxMatches)

InitCall ==
    /\ flow = "call"
    /\ \E m \in CallMappings, parts \in CallDocs :
          /\ entries = m.entries
          /\ reverseIndex = m.reverseIndex
          /\ counters = m.counters
          /\ last = [NoOp EXCEPT !.op = "input", !.parts = parts, !.text = DocText(parts),
                                 !.matches = DocMatches(parts), !.pre = m]
    /\ nOps = 0
    /\ stored = NoFile
    /\ Idle

\* Anonymizer.anonymize on the input, then the caller's addEntries(newEntries)
Anonymize ==
    /\ flow = "call"
    /\ last.op = "input"
    /\ \E r \in {anonymize(last.text, last.matches, getMapping, DocUri)} :
          /\ SetMapping(addEntries(r.mapping, r.newEntries))
          /\ last' = [last EXCEPT !.op = "anonymize", !.result = r.result,
                                  !.newEntries = r.newEntries]
    /\ nOps' = nOps + 1
    /\ UNCHANGED <<patterns, text, detected, stored, flow, disabledTypes, disk, calls, runs, toggled>>

\* Deanonymizer.deanonymize on the result; last.arg holds the restored text
Deanonymize ==
    /\ flow = "call"
    /\ last.op = "anonymize"
    /\ last' = [last EXCEPT !.op = "roundtrip", !.arg = deanonymize(last.result, getMapping)]
    /\ nOps' = nOps + 1
    /\ UNCHANGED <<entries, reverseIndex, counters, patterns, text, detected, stored, flow, disabledTypes, disk, calls, runs, toggled>>

NextCall == Anonymize \/ Deanonymize

SpecCall == InitCall /\ [][NextCall]_vars

----------------------------------------------------------------------------
(* The registry: setEnabled, updateFromConfig, reset and                   *)
(* getEnabledPatterns on a PatternRegistry.  The flow "registry" is the    *)
(* class with the context-required DOB rule, "registryCore" its copy under *)
(* src/core.                                                               *)

\* a customPatterns argument of the constructor: the default rules in the
\* reverse order
ReversedPatterns ==
    [i \in DOMAIN DEFAULT_PATTERNS |-> DEFAULT_PATTERNS[Len(DEFAULT_PATTERNS) + 1 - i]]

\* the enabledTypes objects of updateFromConfig: a value for every type
EnabledTypes ==
    {[i \in DOMAIN PIITypeValues |-> [type |-> PIITypeValues[i], enabled |-> f[PIITypeValues[i]]]] :
        f \in [PIIType -> BOOLEAN]}

InitRegistry ==
    /\ \/ /\ flow = "registry"
          /\ patterns \in {NewPatternRegistry(FALSE, <<>>),
                           NewPatternRegistry(TRUE, ReversedPatterns)}
       \/ /\ flow = "registryCore"
          /\ patterns = resetCore
    /\ text = <<>>
    /\ detected = <<>>
    /\ entries = EmptyMap
    /\ reverseIndex = EmptyMap
    /\ counters = EmptyMap
    /\ last = NoOp
    /\ nOps = 0
    /\ stored = NoFile
    /\ disabledTypes = {}
    /\ disk = <<>>
    /\ calls = <<>>
    /\ runs = <<>>
    /\ toggled = {}

SetEnabled(type, enabled) ==
    /\ flow \in {"registry", "registryCore"}
    /\ patterns' = IF flow = "registry"
                   THEN setEnabled(patterns, type, enabled)
                   ELSE setEnabledCore(patterns, type, enabled)
    /\ last' = [NoOp EXCEPT !.op = "setEnabled"]
    /\ toggled' = toggled \cup {type}
    /\ UNCHANGED <<entries, reverseIndex, counters, nOps, text, detected, stored, flow, disabledTypes, disk, calls, runs>>

UpdateFromConfig(enabledTypes) ==
    /\ flow \in {"registry", "registryCore"}
    /\ patterns' = IF flow = "registry"
                   THEN updateFromConfig(patterns, enabledTypes)
                   ELSE updateFromConfigCore(patterns, enabledTypes)
    /\ last' = [NoOp EXCEPT !.op = "updateFromConfig"]
    /\ toggled' = toggled \cup {enabledTypes[i].type : i \in DOMAIN enabledTypes}
    /\ UNCHANGED <<entries, reverseIndex, counters, nOps, text, detected, stored, flow, disabledTypes, disk, calls, runs>>

\* updatePatternSettings(registry, config), as activate and the listener of
\* onDidChangeConfiguration call it
UpdatePatternSettings(config) ==
    /\ flow \in {"registry", "registryCore"}
    /\ patterns' = IF flow = "registry"
                   THEN updatePatternSettings(patterns, config)
                   ELSE updateFromConfigCore(
                            patterns,
                            [i \in DOMAIN patternTypes |->
                                [type |-> patternTypes[i], enabled |-> config[patternTypes[i]]]])
    /\ toggled' = toggled \cup {patternTypes[i] : i \in DOMAIN patternTypes}
    /\ last' = [NoOp EXCEPT !.op = "updatePatternSettings"]
    /\ UNCHANGED <<entries, reverseIndex, counters, nOps, text, detected, stored, flow, disabledTypes, disk, calls, runs>>

Reset ==
    /\ flow \in {"registry", "registryCore"}
    /\ patterns' = IF flow = "registry" THEN reset ELSE resetCore
    /\ last' = [NoOp EXCEPT !.op = "reset"]
    /\ toggled' = {}
    /\ UNCHANGED <<entries, reverseIndex, counters, nOps, text, detected, stored, flow, disabledTypes, disk, calls, runs>>

\* getEnabledPatterns(): last.result holds the array returned
GetEnabledPatterns ==
    /\ flow \in {"registry", "registryCore"}
    /\ last' = [NoOp EXCEPT !.op = "getEnabledPatterns",
                            !.result = IF flow = "registry"
                                       THEN getEnabledPatterns(patterns)
                                       ELSE getEnabledPatternsCore(patterns)]
    /\ UNCHANGED <<entries, reverseIndex, counters, nOps, patterns, text, detected, stored, flow, disabledTypes, disk, calls, runs, toggled>>

NextRegistry ==
    \/ \E type \in PIIType, enabled \in BOOLEAN : SetEnabled(type, enabled)
    \/ \E enabledTypes \in EnabledTypes : UpdateFromConfig(enabledTypes)
    \/ \E config \in [PIIType -> BOOLEAN] : UpdatePatternSettings(config)
    \/ Reset
    \/ GetEnabledPatterns

SpecRegistry == InitRegistry /\ [][NextRegistry]_vars

----------------------------------------------------------------------------
(* Detection: PIIDetector.detect on a text, for a detector built from the  *)
(* rules a registry returns.  A text is an optional first line followed by *)
(* up to MaxSegs segments.                                                 *)

MaxSegs == 3

\* first lines: none, a comma-separated and a tab-separated header with a
\* birth-date keyword
FirstLines == {<<>>, <<"i", "d", ",", "D", "o", "b", "\n">>, <<"d", "o", "b", "\t", "i", "d", "\n">>}

\* a birth-date keyword with a colon, a line break, a date, the start of a
\* phone number, the start of a postal code, a YAML name key, a family name
Segments ==
    {<<"u751f", "u5e74", "u6708", "u65e5", ":">>, <<"\n">>, <<"2", "0", "0", "0", "-", "1", "-", "1">>, <<"0", "3", "-", "5", "-">>, <<"1", "0", "0", "-">>, <<"n", "a", "m", "e", ":">>, <<"u7530", "u4e2d">>}

Texts ==
    {first \o Flatten(body) :
        first \in FirstLines,
        body \in UNION {[1..k -> Segments] : k \in 0..MaxSegs}}

\* the rules given to new PIIDetector(...): getEnabledPatterns() of a registry
\* nobody configured (the rules of DEFAULT_PATTERNS, DOB disabled and
\* context-required), of one with PHONE disabled, and of one whose DOB rule
\* was set enabled, as updatePatternSettings does with the default settings
RuleSets ==
    {getEnabledPatterns(NewPatternRegistry(FALSE, <<>>)),
     getEnabledPatterns(setEnabled(NewPatternRegistry(FALSE, <<>>), "PHONE", FALSE)),
     getEnabledPatterns(setEnabled(NewPatternRegistry(FALSE, <<>>), "DOB", TRUE))}

InitDetect ==
    /\ flow = "detect"
    /\ patterns \in RuleSets
    /\ text \in Texts
    /\ detected = <<>>
    /\ entries = EmptyMap
    /\ reverseIndex = EmptyMap
    /\ counters = EmptyMap
    /\ last = [NoOp EXCEPT !.op = "input"]
    /\ nOps = 0
    /\ stored = NoFile
    /\ disabledTypes = {}
    /\ disk = <<>>
    /\ calls = <<>>
    /\ runs = <<>>
    /\ toggled = {}

Detect ==
    /\ flow = "detect"
    /\ last.op = "input"
    /\ \E matches \in {detect(patterns, text)} : detected' = matches
    /\ last' = [last EXCEPT !.op = "detect"]
    /\ UNCHANGED <<entries, reverseIndex, counters, nOps, patterns, text, stored, flow, disabledTypes, disk, calls, runs, toggled>>

NextDetect == Detect

SpecDetect == InitDetect /\ [][NextDetect]_vars

----------------------------------------------------------------------------
(* Switching categories: setEnabled and reset on a PatternRegistry, and    *)
(* detection by a detector built from the rules the registry returns, as   *)
(* activate and onDidChangeConfiguration build it.  The flow "switch" is   *)
(* the registry with the context-required DOB rule, "switchCore" its copy  *)
(* under src/core.                                                         *)

MaxLines == 1

\* one line for each way a category is found: a date next to a birth-date
\* keyword, a phone number, a mail address, a postal code, a my-number, a
\* full name, a family name under a YAML name key
SwitchLines ==
    {<<"u751f", "u5e74", "u6708", "u65e5", ":", "2", "0", "0", "0", "-", "1", "-", "1", "\n">>, <<"0", "3", "-", "1", "2", "3", "4", "-", "5", "6", "7", "8", "\n">>, <<"a", "@", "b", ".", "c", "o", "\n">>, <<"1", "0", "0", "-", "0", "0", "0", "1", "\n">>,
     <<"1", "2", "3", "4", " ", "5", "6", "7", "8", " ", "9", "0", "1", "2", "\n">>, <<"u7530", "u4e2d", " ", "u592a", "u90ce", "\n">>, <<"n", "a", "m", "e", ":", "u7530", "u4e2d", "\n">>}

SwitchTexts ==
    {Flatten(body) : body \in UNION {[1..k -> SwitchLines] : k \in 1..MaxLines}}

InitSwitch ==
    /\ \/ /\ flow = "switch"
          /\ patterns = NewPatternRegistry(FALSE, <<>>)
       \/ /\ flow = "switchCore"
          /\ patterns = resetCore
    /\ text \in SwitchTexts
    /\ detected = <<>>
    /\ entries = EmptyMap
    /\ reverseIndex = EmptyMap
    /\ counters = EmptyMap
    /\ last = NoOp
    /\ nOps = 0
    /\ stored = NoFile
    /\ disabledTypes = {}
    /\ disk = <<>>
    /\ calls = <<>>
    /\ runs = <<>>
    /\ toggled = {}

\* registry.setEnabled(type, enabled)
SwitchCategory(type, enabled) ==
    /\ flow \in {"switch", "switchCore"}
    /\ patterns' = IF flow = "switch"
                   THEN setEnabled(patterns, type, enabled)
                   ELSE setEnabledCore(patterns, type, enabled)
    /\ disabledTypes' = IF enabled THEN disabledTypes \ {type} ELSE disabledTypes \cup {type}
    /\ last' = [NoOp EXCEPT !.op = "setEnabled"]
    /\ UNCHANGED <<entries, reverseIndex, counters, nOps, text, detected, stored, flow, disk, calls, runs, toggled>>

\* registry.reset()
SwitchReset ==
    /\ flow \in {"switch", "switchCore"}
    /\ patterns' = IF flow = "switch" THEN reset ELSE resetCore
    /\ disabledTypes' = {}
    /\ last' = [NoOp EXCEPT !.op = "reset"]
    /\ UNCHANGED <<entries, reverseIndex, counters, nOps, text, detected, stored, flow, disk, calls, runs, toggled>>

\* new PIIDetector(registry.getEnabledPatterns()).detect(text): last.result
\* holds the rules the registry returned
DetectEnabled ==
    /\ flow \in {"switch", "switchCore"}
    /\ \E rules \in {IF flow = "switch"
                     THEN getEnabledPatterns(patterns)
                     ELSE getEnabledPatternsCore(patterns)} :
          /\ detected' = detect(rules, text)
          /\ last' = [NoOp EXCEPT !.op = "detect", !.result = rules]
    /\ UNCHANGED <<entries, reverseIndex, counters, nOps, patterns, text, stored, flow,
                   disabledTypes, disk, calls, runs, toggled>>

NextSwitch ==
    \/ \E type \in PIIType, enabled \in BOOLEAN : SwitchCategory(type, enabled)
    \/ SwitchReset
    \/ DetectEnabled

SpecSwitch == InitSwitch /\ [][NextSwitch]_vars

----------------------------------------------------------------------------
(* YAML documents.  A document is a sequence of units; a unit is a line or *)
(* a block scalar (its header and the lines of its body).  A line is a     *)
(* sequence of items, each made of parts; an item with q TRUE is an        *)
(* unquoted scalar of the line that starts with a PII part, the others are *)
(* the text around it.  A line carries its indentation, its class and its  *)
(* inline comment; a unit carries the indentation of the content of its    *)
(* block scalar (0 for a unit that is none).                               *)

MaxUnits == 2

NameA == Pii("NAME", NameJoined)
NameB == Pii("NAME", <<"u9234", "u6728", "u82b1", "u5b50">>)

Text(value) == [q |-> FALSE, parts |-> <<Lit(value)>>]
Plain(parts) == [q |-> FALSE, parts |-> parts]
Scalar(parts) == [q |-> TRUE, parts |-> parts]

Line(items, indent, class, comment) ==
    [items |-> items, indent |-> indent, class |-> class, comment |-> comment]

Unit(lines, contentIndent) == [lines |-> lines, contentIndent |-> contentIndent]

\* lines with a scalar that starts with a PII value
QuoteUnits ==
    {Unit(<<Line(<<Text(<<"u62c5", "u5f53", "u8005", ":", " ">>), Scalar(<<NameA, Lit(<<"uff08", "u653e", "u5c04", "u7dda", "u8a3a", "u65ad", "uff09">>)>>)>>, 0, "quote", <<>>)>>, 0),
     Unit(<<Line(<<Text(<<"n", "a", "m", "e", ":", " ">>), Scalar(<<NameA>>), Text(<<" ", "#", " ", "c", "o", "m", "m", "e", "n", "t">>)>>, 0, "quote",
                 <<"#", " ", "c", "o", "m", "m", "e", "n", "t">>)>>, 0),
     Unit(<<Line(<<Scalar(<<NameA>>), Text(<<":", " ", "x">>)>>, 0, "quote", <<>>)>>, 0),
     Unit(<<Line(<<Text(<<"-", " ">>), Scalar(<<NameA>>)>>, 0, "quote", <<>>)>>, 0),
     Unit(<<Line(<<Text(<<"n", "a", "m", "e", "s", ":", " ", "[">>), Scalar(<<NameA>>), Text(<<",", " ">>), Scalar(<<NameB>>),
                   Text(<<"]">>)>>, 0, "quote", <<>>)>>, 0),
     Unit(<<Line(<<Text(<<"p", ":", " ", "{", "n", ":", " ">>), Scalar(<<NameA>>), Text(<<",", " ">>), Scalar(<<NameB>>),
                   Text(<<":", " ", "x", "}">>)>>, 0, "quote", <<>>)>>, 0),
     Unit(<<Line(<<Text(<<"k", ":", " ">>), Scalar(<<NameA, Lit(<<" ", "a", "\"", "b", "\\", "\\", "c">>)>>)>>, 0, "quote", <<>>)>>, 0),
     Unit(<<Line(<<Text(<<"l", ":", " ", "[", "{", "n", ":", " ">>), Scalar(<<NameA>>), Text(<<"}", ",", " ", "[">>), Scalar(<<NameB>>),
                   Text(<<"]", "]">>)>>, 0, "quote", <<>>)>>, 0),
     Unit(<<Line(<<Text(<<" ", " ", "n", "a", "m", "e", ":", " ">>), Scalar(<<NameA>>)>>, 2, "quote", <<>>)>>, 0)}

\* block scalars: under a key, under a key of a list item, as a list item,
\* and under a key that is a PII value
BlockUnits ==
    {Unit(<<Line(<<Text(<<"n", "o", "t", "e", "s", ":", " ", "|">>)>>, 0, "header", <<>>),
            Line(<<Plain(<<Lit(<<" ", " ">>), NameA, Lit(<<"uff08", "u653e", "u5c04", "u7dda", "u8a3a", "u65ad", "uff09">>)>>)>>, 2, "body", <<>>),
            Line(<<Text(<<>>)>>, 0, "body", <<>>)>>, 2),
     Unit(<<Line(<<Text(<<"-", " ", "n", "o", "t", "e", "s", ":", " ", ">", "-">>)>>, 0, "header", <<>>),
            Line(<<Plain(<<Lit(<<" ", " ", " ", " ">>), NameA>>)>>, 4, "body", <<>>)>>, 4),
     Unit(<<Line(<<Text(<<"-", " ", "|">>)>>, 0, "header", <<>>),
            Line(<<Plain(<<Lit(<<" ", " ">>), NameA>>)>>, 2, "body", <<>>)>>, 2),
     Unit(<<Line(<<Scalar(<<NameA>>), Text(<<":", " ", "|">>)>>, 0, "quote", <<>>),
            Line(<<Text(<<" ", " ", "x">>)>>, 2, "body", <<>>)>>, 2)}

\* a comment-only line and a line without PII
FrameUnits ==
    {Unit(<<Line(<<Plain(<<Lit(<<" ", " ", "#", " ">>), NameA>>)>>, 2, "comment", <<>>)>>, 0),
     Unit(<<Line(<<Text(<<"k", ":", " ", "v">>)>>, 0, "plain", <<>>)>>, 0)}

\* a PII value in the middle of a scalar, of a block mapping, of a flow
\* sequence and in brackets in the text of a value; a scalar in quotes; a
\* PII value inside a quoted string
RestraintUnits ==
    {Unit(<<Line(<<Plain(<<Lit(<<"k", ":", " ", "x", " ">>), NameA>>)>>, 0, "restraint", <<>>)>>, 0),
     Unit(<<Line(<<Plain(<<Lit(<<"l", ":", " ", "[", "x", " ">>), NameA, Lit(<<",", " ", "y", "]">>)>>)>>, 0, "restraint", <<>>)>>, 0),
     Unit(<<Line(<<Plain(<<Lit(<<"k", ":", " ", "x", " ", "[">>), NameA, Lit(<<"]">>)>>)>>, 0, "restraint", <<>>)>>, 0),
     Unit(<<Line(<<Plain(<<Lit(<<"k", ":", " ", "\"">>), NameA, Lit(<<"\"">>)>>)>>, 0, "restraint", <<>>)>>, 0),
     Unit(<<Line(<<Plain(<<Lit(<<"k", ":", " ", "'">>), NameA, Lit(<<"'">>)>>)>>, 0, "restraint", <<>>)>>, 0),
     Unit(<<Line(<<Plain(<<Lit(<<"k", ":", " ", "\"", "x", " ">>), NameA, Lit(<<"\"", " ", "#", " ", "c">>)>>)>>, 0, "restraint",
                 <<"#", " ", "c">>)>>, 0),
     Unit(<<Line(<<Plain(<<Lit(<<"l", ":", " ", "[", "\"">>), NameA, Lit(<<"\"", ",", " ", "'">>), NameB, Lit(<<"'", "]">>)>>)>>, 0,
                 "restraint", <<>>)>>, 0)}

\* a value that starts with a PII value and holds a second one in brackets,
\* before an inline comment with a double quote and text of the form of a
\* placeholder in brackets
NestedUnits ==
    {Unit(<<Line(<<Plain(<<Lit(<<"k", ":", " ">>), NameA, Lit(<<" ", "[">>), NameB,
                           Lit(<<"]", " ", "#", "\"", "[">> \o FormatPlaceholder("DOB", 1) \o <<"]">>)>>)>>,
                 0, "nested", <<"#", "\"", "[">> \o FormatPlaceholder("DOB", 1) \o <<"]">>)>>, 0)}

YamlUnits == QuoteUnits \cup BlockUnits \cup FrameUnits \cup RestraintUnits \cup NestedUnits

YamlDocs == UNION {[1..k -> YamlUnits] : k \in 1..MaxUnits}

\* the lines of the units, each with the indentation of the content of the
\* block scalar of its unit
RECURSIVE UnitLinesFrom(_, _)
UnitLinesFrom(doc, n) ==
    IF n > Len(doc) THEN <<>>
    ELSE [i \in DOMAIN doc[n].lines |->
            [line |-> doc[n].lines[i], contentIndent |-> doc[n].contentIndent]]
         \o UnitLinesFrom(doc, n + 1)

\* the lines from the n-th on, each with inScalar, whether YAML reads it as a
\* line of a block scalar (a line of the body of its unit, or a line that
\* follows a block scalar and is indented as deep as its content), and with
\* deeper, whether it follows a header, with nothing but blank and deeper
\* lines in between, and is blank or indented deeper than the header (the
\* headers of the documents are at indentation 0).  open is the indentation
\* of the content of the block scalar the lines before left open (0: none),
\* under whether the lines before were such lines after a header.
RECURSIVE LabelFrom(_, _, _, _)
LabelFrom(ls, n, open, under) ==
    IF n > Len(ls) THEN <<>>
    ELSE IF ls[n].line.class = "body"
    THEN <<[line |-> ls[n].line, inScalar |-> TRUE, deeper |-> TRUE]>>
         \o LabelFrom(ls, n + 1, ls[n].contentIndent, TRUE)
    ELSE <<[line |-> ls[n].line,
            inScalar |-> open > 0 /\ ls[n].line.indent >= open,
            deeper |-> under /\ ls[n].line.indent > 0]>>
         \o LabelFrom(ls, n + 1,
                      IF open > 0 /\ ls[n].line.indent >= open THEN open ELSE 0,
                      under /\ ls[n].line.indent > 0)

YamlLines(doc) == LabelFrom(UnitLinesFrom(doc, 1), 1, 0, FALSE)

LineParts(line) == Flatten([i \in DOMAIN line.items |-> line.items[i].parts])

RECURSIVE JoinParts(_)
JoinParts(ls) ==
    IF ls = <<>> THEN <<>>
    ELSE IF Len(ls) = 1 THEN LineParts(ls[1].line)
    ELSE LineParts(ls[1].line) \o <<Lit(<<"\n">>)>> \o JoinParts(Tail(ls))

\* the parts of the text of a document
YamlParts(doc) == JoinParts(YamlLines(doc))

\* the input of anonymizeFile: the content of the file, the matches found in
\* it, an empty mapping, and whether the file is a YAML file (last.arg)
InitYaml ==
    /\ flow = "yaml"
    /\ \E doc \in YamlDocs, isYamlFile \in BOOLEAN :
          /\ text = DocText(YamlParts(doc))
          /\ last = [NoOp EXCEPT !.op = "input", !.parts = doc, !.arg = isYamlFile,
                                 !.matches = DocMatches(YamlParts(doc))]
    /\ entries = EmptyMap
    /\ reverseIndex = EmptyMap
    /\ counters = EmptyMap
    /\ nOps = 0
    /\ stored = NoFile
    /\ patterns = <<>>
    /\ detected = <<>>
    /\ disabledTypes = {}
    /\ disk = <<>>
    /\ calls = <<>>
    /\ runs = <<>>
    /\ toggled = {}

\* FileProcessor.anonymizeFile from the detection on: the text as it is when
\* nothing is found, else anonymize and the registration of newEntries
AnonymizeFile ==
    /\ flow = "yaml"
    /\ last.op = "input"
    /\ IF last.matches = <<>>
       THEN /\ last' = [last EXCEPT !.op = "anonymizeFile", !.result = text]
            /\ UNCHANGED <<entries, reverseIndex, counters, disk, calls, runs, toggled>>
       ELSE \E r \in {anonymizeYaml(text, last.matches, getMapping, DocUri, last.arg)} :
               /\ SetMapping(RegisterEntries(r.mapping, r.newEntries))
               /\ last' = [last EXCEPT !.op = "anonymizeFile", !.result = r.result,
                                       !.newEntries = r.newEntries]
    /\ UNCHANGED <<nOps, patterns, text, detected, stored, flow, disabledTypes, disk, calls, runs, toggled>>

\* postProcessYaml applied once more, to the result of a YAML file;
\* last.file holds its result
PostProcessAgain ==
    /\ flow = "yaml"
    /\ last.op = "anonymizeFile"
    /\ last.arg
    /\ last' = [last EXCEPT !.op = "postProcessYaml", !.file = postProcessYaml(last.result)]
    /\ UNCHANGED <<entries, reverseIndex, counters, nOps, patterns, text, detected, stored, flow,
                   disabledTypes, disk, calls, runs, toggled>>

NextYaml == AnonymizeFile \/ PostProcessAgain

SpecYaml == InitYaml /\ [][NextYaml]_vars

-----------------------------------------------------------------------------
(* The mapping locator: MappingStorage.mappingExists and                   *)
(* getMappingPathAsync against the files on disk.  A path is the sequence  *)
(* of its names below the root, a name is a string.  The mapping files get *)
(* on disk by saveMapping, which writes the `.mapping` sibling layout, and  *)
(* by the saveMapping of the earlier layout, which writes mapping.json in  *)
(* the output folder.                                                      *)

MaxDepth == 3
MaxFiles == 2

MAPPING_FILENAME == "mapping.json"
MAPPING_FOLDER == ".mapping"

\* path.dirname, path.basename, path.join
dirname(p) == IF p = <<>> THEN <<>> ELSE SubSeq(p, 1, Len(p) - 1)
basename(p) == IF p = <<>> THEN "" ELSE p[Len(p)]
pathJoin(p, names) == p \o names

\* fs.promises.access(p) resolves
access(fs, p) == p \in DOMAIN fs

\* fs.promises.writeFile(p, data)
writeFile(fs, p, data) == [q \in DOMAIN fs \cup {p} |-> IF q = p THEN data ELSE fs[q]]

newMappingPath(folderPath) ==
    pathJoin(dirname(folderPath), <<MAPPING_FOLDER, basename(folderPath) \o ".json">>)

oldMappingPath(folderPath) == pathJoin(folderPath, <<MAPPING_FILENAME>>)

mappingExists(fs, folderPath) ==
    IF access(fs, newMappingPath(folderPath)) THEN TRUE
    ELSE IF access(fs, oldMappingPath(folderPath)) THEN TRUE
    ELSE FALSE

\* a locator that looks in the folder first
getMappingPathAsyncFolderFirst(fs, folderPath) ==
    IF access(fs, oldMappingPath(folderPath)) THEN oldMappingPath(folderPath)
    ELSE newMappingPath(folderPath)

getMappingPathAsync(fs, folderPath) ==
    IF access(fs, newMappingPath(folderPath)) THEN newMappingPath(folderPath)
    ELSE IF access(fs, oldMappingPath(folderPath)) THEN oldMappingPath(folderPath)
    ELSE newMappingPath(folderPath)

FolderNames == {"airlock", "project"}

Folders == UNION {[1..k -> FolderNames] : k \in 0..MaxDepth}

InitLocate ==
    /\ flow = "locate"
    /\ entries = EmptyMap
    /\ reverseIndex = EmptyMap
    /\ counters = EmptyMap
    /\ last = NoOp
    /\ nOps = 0
    /\ stored = NoFile
    /\ Idle

\* MappingStorage.saveMapping(outputFolder, ...)
SaveMappingFile(outputFolder) ==
    /\ flow = "locate"
    /\ Cardinality(DOMAIN disk \cup {newMappingPath(outputFolder)}) <= MaxFiles
    /\ disk' = writeFile(disk, newMappingPath(outputFolder), "mapping")
    /\ last' = [NoOp EXCEPT !.op = "saveMapping"]
    /\ UNCHANGED <<entries, reverseIndex, counters, nOps, patterns, text, detected, stored,
                   flow, disabledTypes, calls, runs, toggled>>

\* the saveMapping of the earlier layout
SaveMappingInFolder(outputFolder) ==
    /\ flow = "locate"
    /\ Cardinality(DOMAIN disk \cup {oldMappingPath(outputFolder)}) <= MaxFiles
    /\ disk' = writeFile(disk, oldMappingPath(outputFolder), "mapping")
    /\ last' = [NoOp EXCEPT !.op = "saveMappingInFolder"]
    /\ UNCHANGED <<entries, reverseIndex, counters, nOps, patterns, text, detected, stored,
                   flow, disabledTypes, calls, runs, toggled>>

\* mappingExists(folderPath) and getMappingPathAsync(folderPath), as
\* anonymizeFolder and the commands call them one after the other
ResolveMapping(folderPath) ==
    /\ flow = "locate"
    /\ last' = [NoOp EXCEPT !.op = "resolveMapping",
                            !.arg = folderPath,
                            !.result = [exists |-> mappingExists(disk, folderPath),
                                        path |-> getMappingPathAsync(disk, folderPath)]]
    /\ UNCHANGED <<entries, reverseIndex, counters, nOps, patterns, text, detected, stored,
                   flow, disabledTypes, disk, calls, runs, toggled>>

NextLocate ==
    \/ \E outputFolder \in Folders : SaveMappingFile(outputFolder)
    \/ \E outputFolder \in Folders : SaveMappingInFolder(outputFolder)
    \/ \E folderPath \in Folders : ResolveMapping(folderPath)

SpecLocate == InitLocate /\ [][NextLocate]_vars

-----------------------------------------------------------------------------
(* Single values: Anonymizer.anonymizeSingleValue called on a mapping left *)
(* by an earlier anonymize call.                                           *)

MaxCalls == 3

SingleValues ==
    {Pii("NAME", NameSpaced), Pii("NAME", NameJoined), Pii("NAME", NameWide),
     Pii("PHONE", PhoneValue)}

\* Anonymizer.anonymizeSingleValue: the placeholder and the entry returned
\* (Undefined for null), and the mapping as generatePlaceholder leaves it
anonymizeSingleValue(value, type, mapping, documentUri) ==
    IF GetOrUndefined(mapping.reverseIndex, value) # Undefined
    THEN [placeholder |-> GetOrUndefined(mapping.reverseIndex, value),
          entry |-> Undefined,
          mapping |-> mapping]
    ELSE LET gen == generatePlaceholder(type, mapping.counters)
         IN  [placeholder |-> gen.placeholder,
              entry |-> [placeholder |-> gen.placeholder, original |-> value,
                         type |-> type, documentUri |-> documentUri],
              mapping |-> [mapping EXCEPT !.counters = gen.counters]]

InitSingle ==
    /\ flow = "single"
    /\ \E m \in CallMappings :
          /\ entries = m.entries
          /\ reverseIndex = m.reverseIndex
          /\ counters = m.counters
    /\ last = NoOp
    /\ nOps = 0
    /\ stored = NoFile
    /\ Idle

\* anonymizer.anonymizeSingleValue(value, type, mapping, documentUri)
AnonymizeSingleValue(value, type) ==
    /\ flow = "single"
    /\ Len(calls) < MaxCalls
    /\ \E r \in {anonymizeSingleValue(value, type, getMapping, DocUri)} :
          /\ SetMapping(r.mapping)
          /\ calls' = Append(calls, [value |-> value, type |-> type,
                                     placeholder |-> r.placeholder, entry |-> r.entry,
                                     pre |-> getMapping, post |-> r.mapping])
    /\ last' = [NoOp EXCEPT !.op = "anonymizeSingleValue"]
    /\ nOps' = nOps + 1
    /\ UNCHANGED <<patterns, text, detected, stored, flow, disabledTypes, disk, runs, toggled>>

NextSingle == \E v \in SingleValues : AnonymizeSingleValue(v.value, v.type)

SpecSingle == InitSingle /\ [][NextSingle]_vars

-----------------------------------------------------------------------------
(* Backups: BackupService.backupFolder and restoreFromBackup on the files  *)
(* on disk.  A directory is there when a file is below it.  The content of *)
(* a file is a record: [text |-> ...] for a file of the project,           *)
(* [json |-> ...] for a metadata.json the service writes and               *)
(* [registry |-> ...] for its registry.json.  The backup id is the time of *)
(* the call to the second; the clock does not run backwards.               *)

MaxTime == 2
MaxBackups == 2

REGISTRY_FILE == "registry.json"

\* getBackupDirectory with the default setting ~/DataAirlock/backups
getBackupDirectory == <<"home", "DataAirlock", "backups">>

\* generateBackupId at the time now
generateBackupId(now) == "T" \o ToString(now)

\* the files below a directory, and the path of a file relative to it
Under(fs, dir) ==
    {p \in DOMAIN fs : Len(p) > Len(dir) /\ SubSeq(p, 1, Len(dir)) = dir}

Rel(p, dir) == SubSeq(p, Len(dir) + 1, Len(p))

\* the files of a directory by their relative paths
Tree(fs, dir) == [r \in {Rel(p, dir) : p \in Under(fs, dir)} |-> fs[dir \o r]]

\* BackupService.copyDirectory: an entry whose name is in excludeFiles is
\* skipped at every level
copyDirectory(fs, src, dest, excludeFiles) ==
    LET copied == {p \in Under(fs, src) : Range(Rel(p, src)) \cap excludeFiles = {}}
        target == {dest \o Rel(p, src) : p \in copied}
    IN  [q \in DOMAIN fs \cup target |->
            IF q \in target THEN fs[src \o Rel(q, dest)] ELSE fs[q]]

\* BackupService.moveDirectory: the disk it leaves
moveDirectory(fs, src, dest) ==
    LET copied == copyDirectory(fs, src, dest, {})
    IN  [q \in DOMAIN copied \ Under(copied, src) |-> copied[q]]

\* BackupService.loadRegistry
loadRegistry(fs) ==
    IF access(fs, pathJoin(getBackupDirectory, <<REGISTRY_FILE>>))
    THEN fs[pathJoin(getBackupDirectory, <<REGISTRY_FILE>>)].registry
    ELSE <<>>

\* BackupService.saveRegistry
saveRegistry(fs, registry) ==
    writeFile(fs, pathJoin(getBackupDirectory, <<REGISTRY_FILE>>), [registry |-> registry])

BackupPathOf(projectName, backupId) ==
    pathJoin(getBackupDirectory, <<projectName \o "_" \o backupId>>)

\* BackupService.backupFolder: the metadata returned and the disk it leaves;
\* readdir fails on a source folder that is not there and null is returned
backupFolder(fs, sourcePath, pseudonymizedPath, backupId) ==
    LET projectName == basename(sourcePath)
        backupPath == BackupPathOf(projectName, backupId)
        metadata == [id |-> backupId, originalPath |-> sourcePath,
                     pseudonymizedPath |-> pseudonymizedPath,
                     fileCount |-> Cardinality(Under(fs, sourcePath)),
                     projectName |-> projectName]
        moved == moveDirectory(fs, sourcePath, backupPath)
        written == writeFile(moved, pathJoin(backupPath, <<"metadata.json">>),
                             [json |-> metadata])
    IN  IF Under(fs, sourcePath) = {}
        THEN [ok |-> FALSE, metadata |-> metadata, fs |-> fs]
        ELSE [ok |-> TRUE, metadata |-> metadata,
              fs |-> saveRegistry(written, Append(loadRegistry(written), metadata))]

\* the names readdir returns for a directory
TopEntries(fs, dir) == {Rel(p, dir)[1] : p \in Under(fs, dir)}

\* moveDirectory interrupted by a failing copyFile or readdir after the
\* entries in done were handled: their files are copied, and a subfolder
\* among them is already removed from the source by the rm that ends its own
\* moveDirectory
moveDirectoryUpTo(fs, src, dest, done) ==
    LET handled == {p \in Under(fs, src) : Rel(p, src)[1] \in done}
        target == {dest \o Rel(p, src) : p \in handled}
        removed == {p \in handled : Len(Rel(p, src)) > 1}
    IN  [q \in (DOMAIN fs \cup target) \ removed |->
            IF q \in target THEN fs[src \o Rel(q, dest)] ELSE fs[q]]

FailSteps == {"mkdir", "copyFile", "writeFile", "saveRegistry"}

\* BackupService.backupFolder when the call named by step throws: the catch
\* returns null, and the disk is as the calls before it left it
backupFolderFailing(fs, sourcePath, pseudonymizedPath, backupId, step, done) ==
    LET projectName == basename(sourcePath)
        backupPath == BackupPathOf(projectName, backupId)
        metadata == [id |-> backupId, originalPath |-> sourcePath,
                     pseudonymizedPath |-> pseudonymizedPath,
                     fileCount |-> Cardinality(Under(fs, sourcePath)),
                     projectName |-> projectName]
        moved == moveDirectory(fs, sourcePath, backupPath)
    IN  [ok |-> FALSE, metadata |-> metadata,
         fs |-> IF step = "mkdir" THEN fs
                ELSE IF step = "copyFile"
                THEN moveDirectoryUpTo(fs, sourcePath, backupPath, done)
                ELSE IF step = "writeFile" THEN moved
                ELSE writeFile(moved, pathJoin(backupPath, <<"metadata.json">>),
                               [json |-> metadata])]

\* registry.backups.find(b => b.id === backupId): its index, 0 for none
FindBackup(registry, backupId) ==
    IF \E i \in DOMAIN registry : registry[i].id = backupId
    THEN CHOOSE i \in DOMAIN registry :
            /\ registry[i].id = backupId
            /\ \A j \in 1..(i - 1) : registry[j].id # backupId
    ELSE 0

\* BackupService.restoreFromBackup: the value returned and the disk it leaves
restoreFromBackup(fs, backupId) ==
    LET registry == loadRegistry(fs)
        i == FindBackup(registry, backupId)
    IN  IF i = 0 THEN [ok |-> FALSE, fs |-> fs]
        ELSE IF Under(fs, BackupPathOf(registry[i].projectName, backupId)) = {}
        THEN [ok |-> FALSE, fs |-> fs]
        ELSE [ok |-> TRUE,
              fs |-> copyDirectory(fs, BackupPathOf(registry[i].projectName, backupId),
                                   registry[i].originalPath, {"metadata.json"})]

SourcePath == <<"work", "project">>
PseudonymizedPath == <<"airlock", "project">>

\* the files a source folder may hold, by their relative paths
SourceFiles == {<<"a.txt">>, <<"metadata.json">>, <<"sub", "a.txt">>, <<"sub", "metadata.json">>}

SourceTrees ==
    UNION {[S -> {[text |-> "x"], [text |-> "y"]}] : S \in SUBSET SourceFiles \ {{}}}

InitBackup ==
    /\ flow = "backup"
    /\ entries = EmptyMap
    /\ reverseIndex = EmptyMap
    /\ counters = EmptyMap
    /\ last = NoOp
    /\ nOps = 0
    /\ stored = NoFile
    /\ patterns = <<>>
    /\ text = <<>>
    /\ detected = <<>>
    /\ disabledTypes = {}
    /\ calls = <<>>
    /\ \E tree \in SourceTrees :
          disk = [p \in {SourcePath \o r : r \in DOMAIN tree} |-> tree[Rel(p, SourcePath)]]
    /\ runs = <<>>
    /\ toggled = {}

\* the time of the last backup in the registry, 1 when there is none
LastTime(registry) ==
    IF registry = <<>> THEN 1
    ELSE CHOOSE t \in 1..MaxTime : generateBackupId(t) = registry[Len(registry)].id

\* BackupService.backupFolder(sourcePath, pseudonymizedPath) at the time now:
\* last.pre holds the files of the source folder before the call
BackupFolder(sourcePath, now) ==
    /\ flow = "backup"
    /\ Len(loadRegistry(disk)) < MaxBackups
    /\ now >= LastTime(loadRegistry(disk))
    /\ \E r \in {backupFolder(disk, sourcePath, PseudonymizedPath, generateBackupId(now))} :
          /\ disk' = r.fs
          /\ last' = [NoOp EXCEPT !.op = IF r.ok THEN "backupFolder" ELSE "backupFailed",
                                  !.arg = sourcePath,
                                  !.result = r.metadata,
                                  !.pre = Tree(disk, sourcePath),
                                  !.file = disk]
    /\ UNCHANGED <<entries, reverseIndex, counters, nOps, patterns, text, detected, stored,
                   flow, disabledTypes, calls, runs, toggled>>

\* a backupFolder call in which the call named by step throws, for a
\* copyFile after the entries in done were handled; nOps counts the failed
\* calls
BackupFolderFails(sourcePath, now, step, done) ==
    /\ flow = "backup"
    /\ Len(loadRegistry(disk)) < MaxBackups
    /\ nOps < MaxBackups
    /\ now >= LastTime(loadRegistry(disk))
    /\ Under(disk, sourcePath) # {}
    /\ done # TopEntries(disk, sourcePath)
    /\ step # "copyFile" => done = {}
    /\ \E r \in {backupFolderFailing(disk, sourcePath, PseudonymizedPath,
                                      generateBackupId(now), step, done)} :
          /\ disk' = r.fs
          /\ last' = [NoOp EXCEPT !.op = "backupFailed",
                                  !.arg = sourcePath,
                                  !.result = r.metadata,
                                  !.pre = Tree(disk, sourcePath),
                                  !.file = disk]
    /\ nOps' = nOps + 1
    /\ UNCHANGED <<entries, reverseIndex, counters, patterns, text, detected, stored,
                   flow, disabledTypes, calls, runs, toggled>>

\* BackupService.restoreFromBackup(backupId); the op is "roundtrip" when the
\* call follows the backupFolder that returned backupId
RestoreFromBackup(backupId) ==
    /\ flow = "backup"
    /\ \E r \in {restoreFromBackup(disk, backupId)} :
          /\ disk' = r.fs
          /\ last' = IF last.op = "backupFolder" /\ last.result.id = backupId /\ r.ok
                     THEN [last EXCEPT !.op = "roundtrip"]
                     ELSE [NoOp EXCEPT !.op = "restoreFromBackup"]
    /\ UNCHANGED <<entries, reverseIndex, counters, nOps, patterns, text, detected, stored,
                   flow, disabledTypes, calls, runs, toggled>>

NextBackup ==
    \/ \E now \in 1..MaxTime : BackupFolder(SourcePath, now)
    \/ \E now \in 1..MaxTime, step \in FailSteps :
          \E done \in SUBSET TopEntries(disk, SourcePath) :
             BackupFolderFails(SourcePath, now, step, done)
    \/ \E now \in 1..MaxTime : RestoreFromBackup(generateBackupId(now))

SpecBackup == InitBackup /\ [][NextBackup]_vars

----------------------------------------------------------------------------
(* The output folder: FileProcessor.anonymizeFolder and                    *)
(* FileProcessor.anonymizeFile writing into one output folder, with the    *)
(* mapping document of that folder on disk.  A target file is a name and   *)
(* the parts of its content; an output file is kept on disk as its text    *)
(* together with the parts it was written from.  A mapping document is     *)
(* [json |-> entries] when JSON.parse accepts it and a text otherwise.     *)

MaxTargets == 2

OutputFolder == <<"airlock", "project">>

TargetNames == {"a.txt", "b.txt"}

TargetDocs ==
    {<<Pii("NAME", NameSpaced)>>, <<Pii("NAME", NameOther)>>, <<Pii("PHONE", PhoneValue)>>,
     <<Lit(<<"x">>)>>}

\* the target files of a source folder, in the order of getAllFiles
TargetFiles ==
    {fl \in UNION {[1..k -> [name : TargetNames, parts : TargetDocs]] : k \in 0..MaxTargets} :
        \A i, j \in DOMAIN fl : i # j => fl[i].name # fl[j].name}

\* a document JSON.parse throws on
Unparsable == [text |-> <<"{">>]

\* loadMapping that takes a document it cannot parse for an empty one
loadMappingFileLenient(fs, mappingPath) ==
    IF "json" \in DOMAIN fs[mappingPath]
    THEN [ok |-> TRUE, mapping |-> loadMapping(fs[mappingPath].json)]
    ELSE [ok |-> TRUE, mapping |-> loadMapping(<<>>)]

\* MappingStorage.loadMapping(mappingPath): readFile and JSON.parse, which
\* throws on an unparsable document, then the loop over the stored entries
loadMappingFile(fs, mappingPath) ==
    IF "json" \in DOMAIN fs[mappingPath]
    THEN [ok |-> TRUE, mapping |-> loadMapping(fs[mappingPath].json)]
    ELSE [ok |-> FALSE, mapping |-> createEmptyMapping]

\* MappingStorage.saveMapping(outputFolder, sourceFolder, mapping)
saveMappingFile(fs, outputFolder, mapping) ==
    writeFile(fs, newMappingPath(outputFolder), [json |-> saveMapping(mapping)])

\* the writeFile calls of the loop over the target files
RECURSIVE WriteOutputs(_, _, _, _, _)
WriteOutputs(fs, outputFolder, fl, outputs, n) ==
    IF n > Len(fl) THEN fs
    ELSE WriteOutputs(writeFile(fs, pathJoin(outputFolder, <<fl[n].name>>),
                                [text |-> outputs[n], source |-> fl[n].parts]),
                      outputFolder, fl, outputs, n + 1)

\* anonymizeFolder from the loop on, with the mapping it starts from
AnonymizeFolderWith(fs, fl, outputFolder, st) ==
    [fs |-> IF st.mapping.entries # EmptyMap
            THEN saveMappingFile(WriteOutputs(fs, outputFolder, fl, st.outputs, 1),
                                 outputFolder, st.mapping)
            ELSE WriteOutputs(fs, outputFolder, fl, st.outputs, 1),
     result |-> [success |-> TRUE, filesProcessed |-> Len(fl)]]

AnonymizeFolderLoaded(fs, fl, outputFolder, loaded) ==
    IF ~loaded.ok THEN [fs |-> fs, result |-> [success |-> FALSE, filesProcessed |-> 0]]
    ELSE AnonymizeFolderWith(
             fs, fl, outputFolder,
             ProcessFiles([mapping |-> loaded.mapping, outputs |-> <<>>, newEntries |-> <<>>],
                          [i \in DOMAIN fl |-> fl[i].parts]))

\* FileProcessor.anonymizeFolder(sourceFolder, progress, customOutputPath)
\* for the target files fl of the source folder: the files on disk after the
\* call and the ProcessResult
anonymizeFolder(fs, fl, outputFolder) ==
    IF Len(fl) = 0 THEN [fs |-> fs, result |-> [success |-> TRUE, filesProcessed |-> 0]]
    ELSE AnonymizeFolderLoaded(
             fs, fl, outputFolder,
             IF mappingExists(fs, outputFolder)
             THEN loadMappingFile(fs, getMappingPathAsync(fs, outputFolder))
             ELSE [ok |-> TRUE, mapping |-> createEmptyMapping])

AnonymizeFileWith(fs, file, outputDir, st) ==
    [fs |-> IF st.mapping.entries # EmptyMap
            THEN saveMappingFile(WriteOutputs(fs, outputDir, <<file>>, st.outputs, 1),
                                 outputDir, st.mapping)
            ELSE WriteOutputs(fs, outputDir, <<file>>, st.outputs, 1),
     result |-> [success |-> TRUE, filesProcessed |-> 1]]

\* FileProcessor.anonymizeFile(sourcePath, outputFolder): the mapping starts
\* empty
anonymizeFile(fs, file, outputDir) ==
    AnonymizeFileWith(
        fs, file, outputDir,
        ProcessFile([mapping |-> createEmptyMapping, outputs |-> <<>>, newEntries |-> <<>>],
                    file.parts))

\* the mapping documents an output folder can start with: none, one at the
\* place saveMapping writes to, one inside the folder, each parsable or not
InitialDisks ==
    {<<>>} \cup
    {writeFile(<<>>, p, c) :
        p \in {newMappingPath(OutputFolder), oldMappingPath(OutputFolder)},
        c \in {Unparsable, [json |-> <<StoredEntry("NAME", 7, NameOther)>>]}}

InitOutput ==
    /\ flow = "output"
    /\ disk \in InitialDisks
    /\ entries = EmptyMap
    /\ reverseIndex = EmptyMap
    /\ counters = EmptyMap
    /\ last = NoOp
    /\ nOps = 0
    /\ stored = NoFile
    /\ patterns = <<>>
    /\ text = <<>>
    /\ detected = <<>>
    /\ disabledTypes = {}
    /\ calls = <<>>
    /\ runs = <<>>
    /\ toggled = {}

\* one anonymizeFolder run into the output folder; last.arg holds the target
\* files and last.file the files on disk before the run
AnonymizeFolderRun(fl) ==
    /\ flow = "output"
    /\ nOps < MaxRuns
    /\ \E r \in {anonymizeFolder(disk, fl, OutputFolder)} :
          /\ disk' = r.fs
          /\ last' = [NoOp EXCEPT !.op = "anonymizeFolder", !.arg = fl, !.result = r.result,
                                  !.file = disk]
    /\ nOps' = nOps + 1
    /\ UNCHANGED <<entries, reverseIndex, counters, patterns, text, detected, stored, flow,
                   disabledTypes, calls, runs, toggled>>

\* one anonymizeFile run into the output folder
AnonymizeFileRun(file) ==
    /\ flow = "output"
    /\ nOps < MaxRuns
    /\ \E r \in {anonymizeFile(disk, file, OutputFolder)} :
          /\ disk' = r.fs
          /\ last' = [NoOp EXCEPT !.op = "anonymizeFile", !.arg = <<file>>,
                                  !.result = r.result, !.file = disk]
    /\ nOps' = nOps + 1
    /\ UNCHANGED <<entries, reverseIndex, counters, patterns, text, detected, stored, flow,
                   disabledTypes, calls, runs, toggled>>

NextOutput ==
    \/ \E fl \in TargetFiles : AnonymizeFolderRun(fl)
    \/ \E file \in [name : TargetNames, parts : TargetDocs] : AnonymizeFileRun(file)

SpecOutput == InitOutput /\ [][NextOutput]_vars

----------------------------------------------------------------------------
(* Interleaved runs: FileProcessor.anonymizeFolder is an async function,   *)
(* and two calls into one output folder run between each other's await     *)
(* points.  Each run keeps its own mapping object; the files on disk are   *)
(* shared.  A run is at "exists" before mappingExists, at "path" before    *)
(* getMappingPathAsync, at "load" before loadMapping, at "file" before its *)
(* target file, at "save" before saveMapping, and then "done" or "failed". *)

Runs == 1..MaxRuns

RunAt(r, pc) ==
    /\ flow = "interleave"
    /\ r \in DOMAIN runs
    /\ runs[r].pc = pc

InterleaveFrame ==
    UNCHANGED <<entries, reverseIndex, counters, last, nOps, patterns, text, detected, stored,
                flow, disabledTypes, calls, toggled>>

InitInterleave ==
    /\ flow = "interleave"
    /\ disk \in InitialDisks
    /\ runs \in [Runs -> [pc : {"exists"},
                          file : [name : TargetNames, parts : TargetDocs],
                          path : {newMappingPath(OutputFolder)},
                          mapping : {createEmptyMapping}]]
    /\ entries = EmptyMap
    /\ reverseIndex = EmptyMap
    /\ counters = EmptyMap
    /\ last = NoOp
    /\ nOps = 0
    /\ stored = NoFile
    /\ patterns = <<>>
    /\ text = <<>>
    /\ detected = <<>>
    /\ disabledTypes = {}
    /\ calls = <<>>
    /\ toggled = {}

\* await MappingStorage.mappingExists(outputFolder), and the empty mapping
\* of the else branch
RunMappingExists(r) ==
    /\ RunAt(r, "exists")
    /\ runs' = [runs EXCEPT ![r].pc = IF mappingExists(disk, OutputFolder)
                                      THEN "path" ELSE "file"]
    /\ UNCHANGED disk
    /\ InterleaveFrame

\* await MappingStorage.getMappingPathAsync(outputFolder)
RunGetMappingPath(r) ==
    /\ RunAt(r, "path")
    /\ runs' = [runs EXCEPT ![r].pc = "load",
                            ![r].path = getMappingPathAsync(disk, OutputFolder)]
    /\ UNCHANGED disk
    /\ InterleaveFrame

\* await MappingStorage.loadMapping(mappingPath); a throw ends the run in
\* the outer catch
RunLoadMapping(r) ==
    /\ RunAt(r, "load")
    /\ \E loaded \in {loadMappingFile(disk, runs[r].path)} :
          runs' = [runs EXCEPT ![r].pc = IF loaded.ok THEN "file" ELSE "failed",
                               ![r].mapping = loaded.mapping]
    /\ UNCHANGED disk
    /\ InterleaveFrame

\* the body of the loop for the target file of the run: readFile, detect,
\* anonymize with the mapping of the run, the registration of the new
\* entries, writeFile
RunProcessFile(r) ==
    /\ RunAt(r, "file")
    /\ \E st \in {ProcessFile([mapping |-> runs[r].mapping, outputs |-> <<>>,
                               newEntries |-> <<>>], runs[r].file.parts)} :
          /\ runs' = [runs EXCEPT ![r].pc = "save", ![r].mapping = st.mapping]
          /\ disk' = WriteOutputs(disk, OutputFolder, <<runs[r].file>>, st.outputs, 1)
    /\ InterleaveFrame

\* if (mapping.entries.size > 0) await MappingStorage.saveMapping(...)
RunSaveMapping(r) ==
    /\ RunAt(r, "save")
    /\ runs' = [runs EXCEPT ![r].pc = "done"]
    /\ disk' = IF runs[r].mapping.entries # EmptyMap
               THEN saveMappingFile(disk, OutputFolder, runs[r].mapping)
               ELSE disk
    /\ InterleaveFrame

NextInterleave ==
    \E r \in Runs :
        \/ RunMappingExists(r)
        \/ RunGetMappingPath(r)
        \/ RunLoadMapping(r)
        \/ RunProcessFile(r)
        \/ RunSaveMapping(r)

SpecInterleave == InitInterleave /\ [][NextInterleave]_vars

----------------------------------------------------------------------------
(* The extension at work: activate builds the registry from the settings,  *)
(* onDidChangeConfiguration applies changed settings and hands the         *)
(* detector the rules the registry returns, and the command                *)
(* anonymizeDocument detects in the text of the document, anonymizes with  *)
(* the mapping of the MappingService and adds the new entries to it.       *)

\* the settings: names, mail addresses and addresses stay on
Settings ==
    {config \in [PIIType -> BOOLEAN] : config["NAME"] /\ config["EMAIL"] /\ config["ADDRESS"]}

\* the documents: a number that reads as a phone number and as a
\* my-number, a phone number, a full name with a space, and the same name
\* without it after a key
DocumentTexts ==
    {<<"0", "1", "2", "3", "-", "4", "5", "6", "7", "-", "8", "9", "0", "1", "\n">>,
     <<"0", "3", "-", "1", "2", "3", "4", "-", "5", "6", "7", "8", "\n">>,
     <<"u7530", "u4e2d", " ", "u592a", "u90ce", "\n">>,
     <<"n", "a", "m", "e", ":", "u7530", "u4e2d", "u592a", "u90ce", "\n">>}

InitExtension ==
    /\ flow = "extension"
    /\ \E config \in Settings :
          patterns = updatePatternSettings(NewPatternRegistry(FALSE, <<>>), config)
    /\ text = <<>>
    /\ detected = <<>>
    /\ entries = EmptyMap
    /\ reverseIndex = EmptyMap
    /\ counters = EmptyMap
    /\ last = NoOp
    /\ nOps = 0
    /\ stored = NoFile
    /\ disabledTypes = {}
    /\ disk = <<>>
    /\ calls = <<>>
    /\ runs = <<>>
    /\ toggled = {patternTypes[i] : i \in DOMAIN patternTypes}

\* the listener of onDidChangeConfiguration with the new settings
ConfigurationChanged(config) ==
    /\ flow = "extension"
    /\ patterns' = updatePatternSettings(patterns, config)
    /\ last' = [NoOp EXCEPT !.op = "configuration"]
    /\ UNCHANGED <<entries, reverseIndex, counters, nOps, text, detected, stored, flow,
                   disabledTypes, disk, calls, runs, toggled>>

AnonymizeDocumentWith(documentText, matches) ==
    IF matches = <<>>
    THEN /\ last' = [NoOp EXCEPT !.op = "anonymizeDocument", !.text = documentText,
                                 !.result = documentText, !.pre = getMapping]
         /\ UNCHANGED <<entries, reverseIndex, counters, toggled>>
    ELSE \E r \in {anonymize(documentText, matches, getMapping, DocUri)} :
            /\ SetMapping(addEntries(r.mapping, r.newEntries))
            /\ last' = [NoOp EXCEPT !.op = "anonymizeDocument", !.text = documentText,
                                    !.matches = matches, !.result = r.result,
                                    !.newEntries = r.newEntries, !.pre = getMapping]

\* the command anonymizeDocument on the text of the document
AnonymizeDocument(documentText) ==
    /\ flow = "extension"
    /\ nOps < MaxOps
    /\ \E matches \in {detect(getEnabledPatterns(patterns), documentText)} :
          /\ detected' = matches
          /\ AnonymizeDocumentWith(documentText, matches)
    /\ text' = documentText
    /\ nOps' = nOps + 1
    /\ UNCHANGED <<patterns, stored, flow, disabledTypes, disk, calls, runs, toggled>>

NextExtension ==
    \/ \E config \in Settings : ConfigurationChanged(config)
    \/ \E documentText \in DocumentTexts : AnonymizeDocument(documentText)

SpecExtension == InitExtension /\ [][NextExtension]_vars

----------------------------------------------------------------------------
(* Properties.                                                             *)

\* a string of the placeholder grammar for category ty: "[", the tag, "_",
\* exactly three decimal digits, "]"
IsWireOf(p, ty) ==
    /\ Len(p) = Len(TypeChars[ty]) + 6
    /\ p[1] = "["
    /\ SubSeq(p, 2, Len(TypeChars[ty]) + 1) = TypeChars[ty]
    /\ p[Len(TypeChars[ty]) + 2] = "_"
    /\ \A k \in 3..5 : p[Len(TypeChars[ty]) + k] \in Digit
    /\ p[Len(p)] = "]"

IsWire(p) == \E ty \in PIIType : IsWireOf(p, ty)

\* the number a stored or minted placeholder carries, and its tag
UnderscoreOf(p) == CHOOSE i \in DOMAIN p : p[i] = "_"

NumberIn(p) == parseInt(SubSeq(p, UnderscoreOf(p) + 1, Len(p) - 1))

TagIn(p) == SubSeq(p, 2, UnderscoreOf(p) - 1)

\* the whitespace-normalised form under which a value is looked up
LookupForm(value, type) ==
    IF type = "NAME" THEN SelectSeq(value, LAMBDA c : c \notin WhiteSpace) ELSE value

\* C1: from an empty mapping, anonymize, registration of newEntries and
\* deanonymize of the result return exactly the original text
RoundTrip ==
    (flow = "call" /\ last.op = "roundtrip" /\ last.pre = createEmptyMapping)
        => last.arg = last.text

\* the placeholder standing in the result for each match of the document:
\* the text from the match's place up to the next "]"
RECURSIVE MatchPlaceholders(_, _, _, _)
MatchPlaceholders(result, parts, n, pos) ==
    IF n > Len(parts) THEN <<>>
    ELSE IF parts[n].pii
         THEN LET end == CHOOSE e \in (pos + 1)..Len(result) :
                            /\ result[e] = "]"
                            /\ \A k \in (pos + 1)..(e - 1) : result[k] # "]"
              IN  <<SubSeq(result, pos + 1, end)>>
                  \o MatchPlaceholders(result, parts, n + 1, end)
         ELSE MatchPlaceholders(result, parts, n + 1, pos + Len(parts[n].value))

KnownBefore(rev, value, type) ==
    MapHas(rev, value) \/ MapHas(rev, LookupForm(value, type))

ExistingPlaceholder(rev, value, type) ==
    IF MapHas(rev, value) THEN MapGet(rev, value) ELSE MapGet(rev, LookupForm(value, type))

NewEntriesFor(es, value) == {k \in DOMAIN es : es[k].original = value}

NewEntriesOfType(es, type) == {k \in DOMAIN es : es[k].type = type}

\* every category counter advances once per new entry of the category
AdvancedOncePerEntry(pre, post, es) ==
    \A ty \in PIIType :
        CounterOf(post, ty) - CounterOf(pre, ty) = Cardinality(NewEntriesOfType(es, ty))

StabilityOf(M, ph, rev, es, strict) ==
    \A i \in DOMAIN M :
        IF KnownBefore(rev, M[i].value, M[i].type)
        THEN /\ ph[i] = ExistingPlaceholder(rev, M[i].value, M[i].type)
             /\ NewEntriesFor(es, M[i].value) = {}
        ELSE IF strict
             THEN Cardinality({j \in DOMAIN M : M[j].value = M[i].value}) >= 2
                  => /\ \A j \in DOMAIN M : M[j].value = M[i].value => ph[j] = ph[i]
                     /\ Cardinality(NewEntriesFor(es, M[i].value)) = 1
             ELSE LET class == {j \in DOMAIN M :
                                   LookupForm(M[j].value, M[j].type)
                                       = LookupForm(M[i].value, M[i].type)}
                      first == CHOOSE j \in class : \A k \in class : j <= k
                  IN  /\ \A j \in class : ph[j] = ph[i]
                      /\ Cardinality(NewEntriesFor(es, M[first].value)) = 1
                      /\ \A j \in class :
                            M[j].value # M[first].value
                                => NewEntriesFor(es, M[j].value) = {}

\* C3 as stated: a value not known to the mapping that occurs in two or more
\* matches of a call gets one placeholder, one counter advance and exactly
\* one new entry; a value known from an earlier call gets its existing
\* placeholder and no new entry
PlaceholderStability ==
    (flow = "call" /\ last.op = "anonymize")
        => /\ StabilityOf(last.matches, MatchPlaceholders(last.result, last.parts, 1, 0),
                          last.pre.reverseIndex, last.newEntries, TRUE)
           /\ AdvancedOncePerEntry(last.pre.counters, counters, last.newEntries)

\* C3 with the alias taken into account: the matches of a call whose values
\* share a whitespace-normalised form unknown to the mapping all get one
\* placeholder, and newEntries holds exactly one entry for them, that of the
\* first of these matches; the counter advances once per new entry; a value
\* known to the mapping, itself or by its normalised form, gets its existing
\* placeholder and no new entry
PlaceholderStabilityUpToAlias ==
    (flow = "call" /\ last.op = "anonymize")
        => /\ StabilityOf(last.matches, MatchPlaceholders(last.result, last.parts, 1, 0),
                          last.pre.reverseIndex, last.newEntries, FALSE)
           /\ AdvancedOncePerEntry(last.pre.counters, counters, last.newEntries)

PlaceholderStabilityWitness ==
    /\ flow = "call"
    /\ last.op = "anonymize"
    /\ last.parts = <<Pii("PHONE", PhoneValue), Pii("NAME", NameJoined), Pii("PHONE", PhoneValue)>>
    /\ last.pre.reverseIndex = AfterCall(<<Pii("NAME", NameSpaced)>>).reverseIndex
    /\ Len(last.newEntries) = 1

\* the largest number among the stored placeholders of a category, 0 when
\* there is none
NumbersOf(es, ty) ==
    {NumberIn(es[i].placeholder) : i \in {k \in DOMAIN es : TagIn(es[k].placeholder) = TypeChars[ty]}}

MaxNumberOf(es, ty) ==
    IF NumbersOf(es, ty) = {} THEN 0
    ELSE CHOOSE n \in NumbersOf(es, ty) : \A k \in NumbersOf(es, ty) : k <= n

FirstOfType(es, ty) == CHOOSE k \in NewEntriesOfType(es, ty) : \A j \in NewEntriesOfType(es, ty) : k <= j

\* C4: after loadMapping each category's counter is the largest number among
\* the loaded placeholders of the category (0 when there is none), and the
\* first placeholder minted afterwards for the category carries that number
\* plus one and is none of the loaded placeholders
CountersAfterLoad ==
    (flow = "folder" /\ last.op \in {"anonymizeFolder", "applyMapping"} /\ last.file.exists)
        => \A ty \in PIIType :
              /\ CounterOf(last.pre.counters, ty) = MaxNumberOf(last.file.entries, ty)
              /\ NewEntriesOfType(last.newEntries, ty) # {}
                    => NumberIn(last.newEntries[FirstOfType(last.newEntries, ty)].placeholder)
                           = MaxNumberOf(last.file.entries, ty) + 1
              /\ \A k \in NewEntriesOfType(last.newEntries, ty) :
                    \A i \in DOMAIN last.file.entries :
                        last.newEntries[k].placeholder # last.file.entries[i].placeholder

\* the mapping document holds [NAME_007] alone and a new name is minted
CountersAfterLoadWitness ==
    /\ flow = "folder"
    /\ last.op = "anonymizeFolder"
    /\ last.file = [exists |-> TRUE, entries |-> <<StoredEntry("NAME", 7, NameOther)>>]
    /\ Len(last.newEntries) = 1
    /\ last.newEntries[1].placeholder = FormatPlaceholder("NAME", 8)

\* what a part of a document is restored to under a forward map
RestoredPart(part, ents) ==
    IF IsWire(part.value) /\ MapHas(ents, part.value)
    THEN MapGet(ents, part.value).original
    ELSE part.value

\* C5: restoration replaces each occurrence of the placeholder grammar that
\* has a forward-map entry by the entry's original value and leaves every
\* other occurrence and all other text unchanged; with an empty mapping the
\* output equals the input
UnknownPlaceholderPassThrough ==
    (last.op \in {"deanonymize", "applyMapping"})
        => /\ last.result
                = Flatten([i \in DOMAIN last.parts |-> RestoredPart(last.parts[i], last.pre.entries)])
           /\ last.pre.entries = EmptyMap => last.result = last.text

\* a text with a known and an unknown placeholder is restored
UnknownPlaceholderPassThroughWitness ==
    /\ last.op = "deanonymize"
    /\ last.parts = <<Lit(FormatPlaceholder("NAME", 1)), Lit(FormatPlaceholder("PHONE", 999))>>
    /\ MapHas(last.pre.entries, FormatPlaceholder("NAME", 1))
    /\ last.result # last.text

\* the keys of the reverse index that map to a placeholder
KeysTo(rev, placeholder) == {rev[i].key : i \in {k \in DOMAIN rev : rev[k].val = placeholder}}

WellFormedMapping(m) ==
    \A i \in DOMAIN m.entries :
        /\ m.entries[i].val.original \in KeysTo(m.reverseIndex, m.entries[i].key)
        /\ KeysTo(m.reverseIndex, m.entries[i].key)
              \subseteq {m.entries[i].val.original,
                         LookupForm(m.entries[i].val.original, m.entries[i].val.type)}

\* C6: after every mapping-changing operation every placeholder that is a
\* key of the forward map has the reverse-index entry keyed by its entry's
\* original value mapping back to it, plus at most one whitespace-normalised
\* alias for names
SessionMappingInvariant ==
    /\ WellFormedMapping(getMapping)
    /\ WellFormedMapping(last.pre)

\* an entry is removed from a mapping that keeps a name with its alias
SessionMappingInvariantWitness ==
    /\ last.op = "removeEntry"
    /\ Len(last.pre.entries) = 2
    /\ Len(entries) = 1
    /\ Len(reverseIndex) = 2

CountersKept == \A ty \in PIIType : CounterOf(counters', ty) >= CounterOf(counters, ty)

\* C7 as stated: across anonymize, addEntries, removeEntry and clear no
\* category counter of the session mapping ever decreases
CountersNeverDecrease == [][flow = "session" => CountersKept]_vars

\* C7 with clear set apart: across anonymize, addEntries and removeEntry no
\* category counter of the session mapping decreases; clear leaves a mapping
\* without counters, so that the numbering starts again at 001
CountersNeverDecreaseButClear ==
    [][flow = "session"
          => IF last'.op = "clear" THEN counters' = EmptyMap ELSE CountersKept]_vars

\* a mapping whose name counter has advanced is cleared
CountersNeverDecreaseWitness ==
    /\ flow = "session"
    /\ last.op = "clear"
    /\ CounterOf(last.pre.counters, "NAME") >= 1
    /\ CounterOf(counters, "NAME") = 0

\* C8: every placeholder minted is "[", the category tag, "_", exactly three
\* zero-padded decimal digits, "]", the first of a category being 001, and
\* matches the placeholder grammar of the restoration
PlaceholderWireFormat ==
    \A k \in DOMAIN last.newEntries :
        /\ IsWireOf(last.newEntries[k].placeholder, last.newEntries[k].type)
        /\ containsPlaceholder(last.newEntries[k].placeholder)
        /\ (CounterOf(last.pre.counters, last.newEntries[k].type) = 0
               /\ k = FirstOfType(last.newEntries, last.newEntries[k].type))
              => NumberIn(last.newEntries[k].placeholder) = 1

----------------------------------------------------------------------------
(* Properties of detection and of the registry.                            *)

Intersect(a0, a1, b0, b1) == a0 < b1 /\ b0 < a1

\* C2: detect returns its matches ordered by non-decreasing startIndex, and
\* no two of them, from the pattern pass and the name-key pass together,
\* have intersecting ranges [startIndex, endIndex).
NonOverlap ==
    (flow = "detect" /\ last.op = "detect") =>
        \A i, j \in DOMAIN detected :
            i < j =>
                /\ detected[i].startIndex <= detected[j].startIndex
                /\ ~Intersect(detected[i].startIndex, detected[i].endIndex,
                              detected[j].startIndex, detected[j].endIndex)

\* detect has returned a match of the pattern pass and, after it, a name of
\* two kanji, which only the name-key pass finds
NonOverlapWitness ==
    /\ flow = "detect"
    /\ last.op = "detect"
    /\ \E i, j \in DOMAIN detected :
          /\ i < j
          /\ detected[i].type # "NAME"
          /\ detected[j].type = "NAME"
          /\ Len(detected[j].value) = 2

\* where the detector's array holds the DOB rule
DobRules == {i \in DOMAIN patterns : patterns[i].type = "DOB"}

\* the birth-date rule is disabled and context-required
Gated == \E i \in DobRules : ~patterns[i].enabled /\ patterns[i].contextRequired

\* the date strings of the text: the ranges the expressions of the DOB rule
\* match
DateStrings ==
    UNION {UNION {Range(ExecAll(patterns[i].patterns[k], text, 0)) :
                     k \in DOMAIN patterns[i].patterns} :
              i \in DobRules}

HasKeyword(s) ==
    \E k \in DOMAIN DOB_CONTEXT_KEYWORDS :
        includes(toLowerCase(s), toLowerCase(DOB_CONTEXT_KEYWORDS[k]))

\* the first line is a comma- or tab-delimited header with a keyword column
HeaderEligible ==
    \E d \in {",", "\t"} :
        /\ d \in Range(split(text, "\n")[1])
        /\ \E column \in Range(split(split(text, "\n")[1], d)) : HasKeyword(column)

\* the line of the text the offset lies on
LineAt(offset) ==
    split(text, "\n")[Cardinality({i \in 1..offset : text[i] = "\n"}) + 1]

Eligible(c) == HeaderEligible \/ HasKeyword(LineAt(c.index))

Emitted(c) ==
    \E i \in DOMAIN detected :
        /\ detected[i].type = "DOB"
        /\ detected[i].startIndex = c.index
        /\ detected[i].endIndex = c.end

\* a returned match of a rule that detect runs no later than the DOB rule
\* intersects the date string without being it
Preempted(c) ==
    \E i \in DOMAIN detected :
        /\ \E p, q \in DOMAIN patterns :
              /\ patterns[p].type = detected[i].type
              /\ patterns[q].type = "DOB"
              /\ patterns[p].priority <= patterns[q].priority
        /\ ~(detected[i].startIndex = c.index /\ detected[i].endIndex = c.end)
        /\ Intersect(detected[i].startIndex, detected[i].endIndex, c.index, c.end)

DobMatchesAreDateStrings ==
    \A i \in DOMAIN detected :
        detected[i].type = "DOB" =>
            [index |-> detected[i].startIndex, end |-> detected[i].endIndex] \in DateStrings

\* C9 as stated: with the birth-date rule disabled and context-required,
\* detect emits a birth-date match for a date string if and only if the
\* match is context-eligible: the first line is a comma- or tab-delimited
\* header with a birth-date keyword column, or the line of the match holds
\* a birth-date keyword (case-insensitive).
ContextGating ==
    (flow = "detect" /\ last.op = "detect" /\ Gated) =>
        /\ \A c \in DateStrings : Emitted(c) <=> Eligible(c)
        /\ DobMatchesAreDateStrings

\* C9: with the birth-date rule disabled and context-required, detect emits
\* a birth-date match for a date string if and only if the match is
\* context-eligible and the date string intersects no match accepted before
\* it (of a rule of higher priority or of the DOB rule itself).
ContextGatingUnlessPreempted ==
    (flow = "detect" /\ last.op = "detect" /\ Gated) =>
        /\ \A c \in DateStrings : Emitted(c) <=> (Eligible(c) /\ ~Preempted(c))
        /\ DobMatchesAreDateStrings

\* detect has emitted a date whose line holds a keyword, under a first line
\* that is no header with a keyword
ContextGatingWitness ==
    /\ flow = "detect"
    /\ last.op = "detect"
    /\ Gated
    /\ ~HeaderEligible
    /\ \E c \in DateStrings : Emitted(c) /\ Eligible(c)

IsActive(p) == p.enabled \/ (~p.enabled /\ p.contextRequired)

----------------------------------------------------------------------------
(* Properties of switching categories.                                     *)

\* the rules getEnabledPatterns() returns in the current state
ReturnedRules ==
    IF flow = "switchCore" THEN getEnabledPatternsCore(patterns) ELSE getEnabledPatterns(patterns)

\* C11: while a category is switched off by setEnabled(category, false), and
\* neither enabled again nor reset, getEnabledPatterns() returns no rule of
\* that category and a detector built from the returned rules emits no match
\* of that category
DisabledCategorySilent ==
    flow \in {"switch", "switchCore"} =>
        /\ \A i \in DOMAIN ReturnedRules : ReturnedRules[i].type \notin disabledTypes
        /\ last.op = "detect" =>
              \A i \in DOMAIN detected : detected[i].type \notin disabledTypes

----------------------------------------------------------------------------
(* Properties of the pass over a YAML text.                                *)

YamlDone == flow = "yaml" /\ last.op = "anonymizeFile"

\* the lines of the result
OutLines == split(last.result, "\n")

\* the parts with each PII value replaced by its placeholder
Replaced(parts) ==
    Flatten([i \in DOMAIN parts |->
                IF parts[i].pii THEN MapGet(reverseIndex, parts[i].value) ELSE parts[i].value])

\* a scalar in one pair of double quotes, \ and " escaped
Wrapped(value) ==
    <<"\"">>
    \o Flatten([i \in DOMAIN value |->
                   IF value[i] \in {"\\", "\""} THEN <<"\\", value[i]>> ELSE <<value[i]>>])
    \o <<"\"">>

\* a line with its PII values replaced and nothing else changed
PlainLine(line) == Replaced(LineParts(line))

\* a line with its PII values replaced and its scalars that start with a
\* placeholder in double quotes
QuotedLine(line) ==
    Flatten([i \in DOMAIN line.items |->
                IF line.items[i].q THEN Wrapped(Replaced(line.items[i].parts))
                ELSE Replaced(line.items[i].parts)])

HasPii(line) == \E i \in DOMAIN LineParts(line) : LineParts(line)[i].pii

\* a line of a block scalar as YAML reads it
InBlockScalar(l) == l.inScalar

\* a line after a header that is blank or indented deeper than the header
DeeperThanHeader(l) == l.deeper

\* C12: in structural mode every unquoted scalar that starts with a
\* placeholder (a block-mapping value or key, a list item, an element or a
\* value of a flow collection) comes out wrapped as a whole in one pair of
\* double quotes, with \ and " escaped
QuotesLeadingPlaceholders ==
    (YamlDone /\ last.arg) =>
        \A i \in DOMAIN YamlLines(last.parts) :
            LET l == YamlLines(last.parts)[i]
            IN  (l.line.class = "quote" /\ ~InBlockScalar(l)) =>
                    OutLines[i] = QuotedLine(l.line)

NoQuotesAdded ==
    YamlDone =>
        \A i \in DOMAIN YamlLines(last.parts) :
            LET l == YamlLines(last.parts)[i]
            IN  (l.line.class = "restraint" \/ ~last.arg) => OutLines[i] = PlainLine(l.line)

-----------------------------------------------------------------------------
(* Properties of the mapping locator.                                      *)

Resolved == flow = "locate" /\ last.op = "resolveMapping"

\* the output folders above a folder whose mapping file is on disk
OutputFoldersAbove(folderPath) ==
    {O \in Folders : /\ O # <<>>
                     /\ Len(O) < Len(folderPath)
                     /\ SubSeq(folderPath, 1, Len(O)) = O
                     /\ access(disk, newMappingPath(O))}

\* C15: for a folder at any depth below an output folder O whose mapping
\* file <parent of O>/.mapping/<name of O>.json is on disk,
\* getMappingPathAsync returns the path of that file and mappingExists
\* returns true
NestedMappingResolved ==
    (Resolved /\ OutputFoldersAbove(last.arg) # {}) =>
        /\ last.result.exists
        /\ \E O \in OutputFoldersAbove(last.arg) : last.result.path = newMappingPath(O)

\* C16: mappingExists is true exactly when getMappingPathAsync returns a
\* path that is on disk; with the file in the folder alone that path is
\* returned, with both layouts the path under `.mapping`
LocatorsAgree ==
    Resolved =>
        /\ last.result.exists <=> access(disk, last.result.path)
        /\ (/\ ~access(disk, newMappingPath(last.arg))
            /\ access(disk, oldMappingPath(last.arg))) =>
               last.result.path = oldMappingPath(last.arg)
        /\ (/\ access(disk, newMappingPath(last.arg))
            /\ access(disk, oldMappingPath(last.arg))) =>
               last.result.path = newMappingPath(last.arg)

LocatorsAgreeWitness ==
    /\ Resolved
    /\ access(disk, newMappingPath(last.arg))
    /\ access(disk, oldMappingPath(last.arg))
    /\ last.result.exists
    /\ last.result.path = newMappingPath(last.arg)

-----------------------------------------------------------------------------
(* Properties of repeated runs over an output folder.                      *)

RunAgain == flow = "folder" /\ last.op = "anonymizeFolder" /\ last.file.exists

\* the persisted entries of a value: those with the value as original and,
\* with alias, the name entries that differ from a name in whitespace only
PersistedFor(F, m, alias) ==
    {k \in DOMAIN F :
        \/ F[k].original = m.value
        \/ /\ alias
           /\ F[k].type = "NAME"
           /\ m.type = "NAME"
           /\ LookupForm(F[k].original, "NAME") = LookupForm(m.value, "NAME")}

HoldsEntry(F, e) ==
    \E k \in DOMAIN F : /\ F[k].placeholder = e.placeholder
                        /\ F[k].original = e.original
                        /\ F[k].type = e.type

ReuseOf(F, M, ph, es, saved, alias) ==
    /\ \A i \in DOMAIN M :
          IF PersistedFor(F, M[i], alias) # {}
          THEN \E k \in PersistedFor(F, M[i], alias) : ph[i] = F[k].placeholder
          ELSE \A k \in DOMAIN F : ph[i] # F[k].placeholder
    /\ \A k \in DOMAIN F : HoldsEntry(saved, F[k])
    /\ \A k \in DOMAIN es : HoldsEntry(saved, es[k])

\* C17 as stated: in a run of anonymizeFolder over an output folder with a
\* persisted mapping, a value of an earlier run gets its placeholder again,
\* a value first seen gets a placeholder that is none of the persisted ones,
\* and the mapping saved holds the earlier entries and the new ones
ReuseAcrossRuns ==
    RunAgain =>
        ReuseOf(last.file.entries, last.matches,
                MatchPlaceholders(last.result, last.parts, 1, 0),
                last.newEntries, stored.entries, FALSE)

\* C17 with the alias taken into account: a name that differs in whitespace
\* only from a persisted name gets the placeholder of that name
ReuseAcrossRunsUpToAlias ==
    RunAgain =>
        ReuseOf(last.file.entries, last.matches,
                MatchPlaceholders(last.result, last.parts, 1, 0),
                last.newEntries, stored.entries, TRUE)

\* the second run over a folder whose first run persisted [NAME_001]: one
\* value gets that placeholder again and another one is minted
ReuseAcrossRunsWitness ==
    /\ RunAgain
    /\ nOps = 2
    /\ \E k \in DOMAIN last.file.entries :
          /\ last.file.entries[k].placeholder = FormatPlaceholder("NAME", 1)
          /\ \E i \in DOMAIN last.matches :
                MatchPlaceholders(last.result, last.parts, 1, 0)[i]
                    = last.file.entries[k].placeholder
    /\ Len(last.newEntries) = 1
    /\ Len(stored.entries) = Len(last.file.entries) + 1

-----------------------------------------------------------------------------
(* Properties of the name alias.                                           *)

AnonymizeDone ==
    \/ flow = "session" /\ last.op = "anonymize"
    \/ flow = "folder" /\ last.op = "anonymizeFolder"

\* the entries of a forward map for the names of one whitespace-normalised
\* form
NameEntriesOf(es, form) ==
    {k \in DOMAIN es : /\ es[k].val.type = "NAME"
                       /\ LookupForm(es[k].val.original, "NAME") = form}

\* the new entries of a call for the names of one form
NewNameEntriesOf(es, form) ==
    {k \in DOMAIN es : es[k].type = "NAME" /\ LookupForm(es[k].original, "NAME") = form}

AliasReuseOf(M, ph, pre, es, post) ==
    \A i \in DOMAIN M :
        M[i].type = "NAME" =>
            LET form == LookupForm(M[i].value, "NAME")
            IN  /\ \A j \in DOMAIN M :
                      (M[j].type = "NAME" /\ LookupForm(M[j].value, "NAME") = form)
                          => ph[j] = ph[i]
                /\ NameEntriesOf(pre.entries, form) # {}
                      => /\ \A k \in NameEntriesOf(pre.entries, form) :
                                pre.entries[k].key = ph[i]
                         /\ NewNameEntriesOf(es, form) = {}
                /\ ~KnownBefore(pre.reverseIndex, M[i].value, "NAME")
                      => Cardinality(NewNameEntriesOf(es, form)) = 1
                /\ Cardinality(NameEntriesOf(post, form)) <= 1

\* C18: name matches that differ in whitespace only get one placeholder and
\* one entry, whichever spelling comes first: within a call, across the
\* calls on a mapping, and in a run on a mapping saved and loaded again
AliasReuse ==
    AnonymizeDone =>
        AliasReuseOf(last.matches, MatchPlaceholders(last.result, last.parts, 1, 0),
                     last.pre, last.newEntries, entries)

\* the first run persisted the name with a space, the second run meets it
\* without and mints nothing
AliasReuseWitness ==
    /\ flow = "folder"
    /\ last.op = "anonymizeFolder"
    /\ nOps = 2
    /\ last.file = [exists |-> TRUE, entries |-> <<StoredEntry("NAME", 1, NameSpaced)>>]
    /\ last.parts = <<Pii("NAME", NameJoined)>>
    /\ last.result = FormatPlaceholder("NAME", 1)
    /\ last.newEntries = <<>>
    /\ Len(entries) = 1

-----------------------------------------------------------------------------
(* Properties of anonymizeSingleValue.                                     *)

\* the call before the n-th was for the same value, which was new then
RepeatsNewValue(n) ==
    /\ n > 1
    /\ calls[n - 1].value = calls[n].value
    /\ calls[n - 1].type = calls[n].type
    /\ ~KnownBefore(calls[n - 1].pre.reverseIndex, calls[n].value, calls[n].type)

\* C19: anonymizeSingleValue follows the rule of anonymize: for a value
\* known to the mapping, itself or for a name by its whitespace-normalised
\* form, it returns the existing placeholder and no entry, and two calls in
\* a row for one new value return one placeholder and advance the counter
\* of the category once
SingleValueRule ==
    flow = "single" =>
        \A n \in DOMAIN calls :
            /\ KnownBefore(calls[n].pre.reverseIndex, calls[n].value, calls[n].type)
                  => /\ calls[n].placeholder
                            = ExistingPlaceholder(calls[n].pre.reverseIndex,
                                                  calls[n].value, calls[n].type)
                     /\ calls[n].entry = Undefined
            /\ RepeatsNewValue(n)
                  => /\ calls[n].placeholder = calls[n - 1].placeholder
                     /\ CounterOf(calls[n].post.counters, calls[n].type)
                            = CounterOf(calls[n - 1].pre.counters, calls[n].type) + 1

-----------------------------------------------------------------------------
(* Properties of backups.                                                  *)

\* C20: backupFolder followed by restoreFromBackup of the id it returned
\* leaves at the original path exactly the files, by relative path and
\* content, that the source folder held before the backup
BackupRoundTrip ==
    (flow = "backup" /\ last.op = "roundtrip") => Tree(disk, last.arg) = last.pre

----------------------------------------------------------------------------
(* Properties. Order of acceptance in detect.                              *)

\* the candidates of the pattern pass of detect: one for each match of each
\* regular expression of each rule that is enabled or context-required, with
\* its place in the order of the loops (rules by priority, ties in array
\* order, then regular expressions, then matches) and whether it passes the
\* gates of its rule (birth-date context, name exclusion)
PatternCandidates ==
    UNION {UNION {{[type |-> patterns[i].type,
                    index |-> ExecAll(patterns[i].patterns[k], text, 0)[n].index,
                    end |-> ExecAll(patterns[i].patterns[k], text, 0)[n].end,
                    ord |-> <<0, patterns[i].priority, i, k, n>>,
                    pass |->
                        /\ ~(/\ ~patterns[i].enabled /\ patterns[i].contextRequired
                             /\ patterns[i].type = "DOB"
                             /\ ~hasDOBContext(text,
                                               ExecAll(patterns[i].patterns[k], text, 0)[n].index,
                                               analyzeDOBContext(text)))
                        /\ ~(/\ patterns[i].type = "NAME"
                             /\ isExcludedName(
                                    Slice(text,
                                          ExecAll(patterns[i].patterns[k], text, 0)[n].index,
                                          ExecAll(patterns[i].patterns[k], text, 0)[n].end)))] :
                      n \in DOMAIN ExecAll(patterns[i].patterns[k], text, 0)} :
                     k \in DOMAIN patterns[i].patterns} :
              i \in {j \in DOMAIN patterns : patterns[j].enabled \/ patterns[j].contextRequired}}

\* the candidate of the name-key pass for match m of step `step`
NameKeyCandidate(step, n, m) ==
    [type |-> "NAME",
     index |-> m.index + indexOf(Slice(text, m.index, m.end), Slice(text, m.g0, m.g1)),
     end |-> m.index + indexOf(Slice(text, m.index, m.end), Slice(text, m.g0, m.g1))
                 + (m.g1 - m.g0),
     ord |-> <<1, step, n, 0, 0>>,
     pass |-> ~isExcludedName(Slice(text, m.g0, m.g1))]

\* the candidates of the name-key pass, which runs after the pattern pass
NameKeyCandidates ==
    UNION {{NameKeyCandidate(
                step, n,
                GroupExecAll(YamlKey(YAML_NAME_KEYS[(step + 1) \div 2]),
                             YamlValues[2 - (step % 2)], YamlEnd, text, 0)[n]) :
              n \in DOMAIN GroupExecAll(YamlKey(YAML_NAME_KEYS[(step + 1) \div 2]),
                                        YamlValues[2 - (step % 2)], YamlEnd, text, 0)} :
             step \in 1..(2 * Len(YAML_NAME_KEYS))}

\* candidate a is considered before candidate b
ConsideredBefore(a, b) ==
    \E j \in 1..5 : a.ord[j] < b.ord[j] /\ \A h \in 1..(j - 1) : a.ord[h] = b.ord[h]

SameMatch(a, b) == a.type = b.type /\ a.index = b.index /\ a.end = b.end

\* the candidate is among the matches detect returned
IsEmitted(c) ==
    \E i \in DOMAIN detected :
        /\ detected[i].type = c.type
        /\ detected[i].startIndex = c.index
        /\ detected[i].endIndex = c.end

\* the candidate passes its gates and intersects no match emitted for a
\* candidate considered before it
Accepted(c, candidates) ==
    /\ c.pass
    /\ ~\E b \in candidates :
          /\ ConsideredBefore(b, c) /\ b.pass /\ IsEmitted(b)
          /\ ~SameMatch(b, c)
          /\ Intersect(b.index, b.end, c.index, c.end)

\* C21: within one detect call a candidate (of the pattern pass in the order
\* of priority, regular expression and position, then of the name-key pass)
\* is emitted if and only if it passes the gates of its rule and intersects
\* no match emitted before it; every returned match is such a candidate with
\* its range untouched, so no later candidate displaces or trims it.
FirstAcceptedWins ==
    (flow = "detect" /\ last.op = "detect") =>
        \A candidates \in {PatternCandidates \cup NameKeyCandidates} :
            /\ \A c \in candidates : Accepted(c, candidates) => IsEmitted(c)
            /\ \A i \in DOMAIN detected :
                  \E c \in candidates :
                      /\ c.type = detected[i].type
                      /\ c.index = detected[i].startIndex
                      /\ c.end = detected[i].endIndex
                      /\ detected[i].value = Slice(text, c.index, c.end)
                      /\ Accepted(c, candidates)
            /\ \A i, j \in DOMAIN detected :
                  (/\ detected[i].startIndex = detected[j].startIndex
                   /\ detected[i].endIndex = detected[j].endIndex) => i = j

\* a candidate of a rule of lower priority that passes its gates is dropped
\* for a returned match of a rule of higher priority, and a candidate of the
\* name-key pass that passes its gate meets a match the pattern pass emitted
\* and adds no second match
FirstAcceptedWinsWitness ==
    /\ flow = "detect" /\ last.op = "detect"
    /\ \/ \E c \in PatternCandidates :
             /\ c.pass /\ ~IsEmitted(c)
             /\ \E b \in PatternCandidates :
                   /\ b.ord[2] < c.ord[2] /\ IsEmitted(b)
                   /\ Intersect(b.index, b.end, c.index, c.end)
       \/ \E c \in NameKeyCandidates :
             /\ c.pass
             /\ \E b \in PatternCandidates :
                   /\ b.pass /\ IsEmitted(b)
                   /\ Intersect(b.index, b.end, c.index, c.end)

----------------------------------------------------------------------------
(* Properties. The text around the matches.                                *)

\* the placeholder the mapping holds after the call for the value of a part
PlaceholderOfPart(part) == ExistingPlaceholder(reverseIndex, part.value, part.type)

\* the text of the parts with every match replaced by its placeholder
Rewritten(parts) ==
    Flatten([i \in DOMAIN parts |->
                IF parts[i].pii THEN PlaceholderOfPart(parts[i]) ELSE parts[i].value])

\* C22: for matches sorted by position that do not overlap and whose values
\* are the slices of the text at their ranges, the result of anonymize in
\* non-structural mode is the text with each match span replaced by its
\* placeholder and every character outside the spans kept in its order,
\* whatever the lengths of values and placeholders.
OffsetStableRewriting ==
    (flow = "call" /\ last.op \in {"anonymize", "roundtrip"}) =>
        /\ \A i \in DOMAIN last.matches :
              /\ last.matches[i].value
                    = Slice(last.text, last.matches[i].startIndex, last.matches[i].endIndex)
              /\ \A j \in DOMAIN last.matches :
                    i < j => last.matches[i].endIndex <= last.matches[j].startIndex
        /\ \A i \in DOMAIN last.parts :
              last.parts[i].pii =>
                  KnownBefore(reverseIndex, last.parts[i].value, last.parts[i].type)
        /\ last.result = Rewritten(last.parts)

\* a call with a value shorter than its placeholder, a value longer than its
\* placeholder and a literal stretch after a match
OffsetStableRewritingWitness ==
    /\ flow = "call" /\ last.op = "anonymize"
    /\ \E i, j, k \in DOMAIN last.parts :
          /\ last.parts[i].pii /\ last.parts[j].pii /\ ~last.parts[k].pii
          /\ Len(last.parts[i].value) < Len(PlaceholderOfPart(last.parts[i]))
          /\ Len(last.parts[j].value) > Len(PlaceholderOfPart(last.parts[j]))
          /\ (i < k \/ j < k)
    /\ last.result = Rewritten(last.parts)
    /\ last.result # last.text

----------------------------------------------------------------------------
(* Properties. A mapping document that cannot be parsed.                   *)

\* the run met a mapping document for the output folder that JSON.parse
\* rejects: fs holds the files on disk before the run
MalformedBefore(fs) ==
    /\ mappingExists(fs, OutputFolder)
    /\ "json" \notin DOMAIN fs[getMappingPathAsync(fs, OutputFolder)]

\* the run failed and touched no file
FailedUntouched ==
    /\ last.result = [success |-> FALSE, filesProcessed |-> 0]
    /\ disk = last.file

\* the statement for every source folder, with or without target files
MalformedMappingFailsAlways ==
    (flow = "output" /\ last.op = "anonymizeFolder" /\ MalformedBefore(last.file)) =>
        FailedUntouched

\* C23: if the persisted mapping that exists for the output folder cannot be
\* parsed and the source folder holds a target file, anonymizeFolder returns
\* success=false with filesProcessed=0, writes no output file and leaves the
\* mapping file as it is.
MalformedMappingFails ==
    (/\ flow = "output" /\ last.op = "anonymizeFolder" /\ MalformedBefore(last.file)
     /\ Len(last.arg) > 0) =>
        FailedUntouched

\* a run over two target files with personal data met an unparsable mapping
\* document and failed
MalformedMappingFailsWitness ==
    /\ flow = "output" /\ last.op = "anonymizeFolder" /\ MalformedBefore(last.file)
    /\ Len(last.arg) = 2
    /\ \E i \in DOMAIN last.arg : last.arg[i].parts[1].pii
    /\ FailedUntouched

----------------------------------------------------------------------------
(* Properties. A backup that fails.                                        *)

\* C24: if backupFolder fails at any step and returns null, the source
\* folder still holds every file it held before the call, with its content,
\* and the backup registry is as it was.
BackupFailureKeepsOriginals ==
    (flow = "backup" /\ last.op = "backupFailed") =>
        /\ \A r \in DOMAIN last.pre :
              /\ access(disk, last.arg \o r)
              /\ disk[last.arg \o r] = last.pre[r]
        /\ loadRegistry(disk) = loadRegistry(last.file)

----------------------------------------------------------------------------
(* Properties. The mapping document and the files of the output folder.    *)

\* the output files written into the output folder
OutputFiles(fs) == {p \in Under(fs, OutputFolder) : "source" \in DOMAIN fs[p]}

\* the entries of the mapping document of the output folder, none when there
\* is no document or it cannot be parsed
PersistedEntries(fs) ==
    IF /\ mappingExists(fs, OutputFolder)
       /\ "json" \in DOMAIN fs[getMappingPathAsync(fs, OutputFolder)]
    THEN fs[getMappingPathAsync(fs, OutputFolder)].json
    ELSE <<>>

\* the mapping document holds the placeholder for the value, names compared
\* as the lookup compares them
CoveredBy(sts, placeholder, part) ==
    \E i \in DOMAIN sts :
        /\ sts[i].placeholder = placeholder
        /\ sts[i].type = part.type
        /\ LookupForm(sts[i].original, part.type) = LookupForm(part.value, part.type)

\* every placeholder that stands for a value in the output file at p is
\* covered by the mapping document
FileCovered(fs, p) ==
    \A ph \in {MatchPlaceholders(fs[p].text, fs[p].source, 1, 0)} :
        \A k \in DOMAIN ph :
            CoveredBy(PersistedEntries(fs), ph[k],
                      SelectSeq(fs[p].source, LAMBDA part : part.pii)[k])

\* C25: after any sequence of anonymizeFile and anonymizeFolder runs into
\* one output folder, every placeholder that replaced a value in a file of
\* the output folder has an entry in the mapping document of the folder, and
\* the original of that entry is the value replaced (for a name, up to the
\* white space the lookup ignores).
PersistedMappingCovers ==
    flow = "output" => \A p \in OutputFiles(disk) : FileCovered(disk, p)


----------------------------------------------------------------------------
(* Properties. The reverse index after removals.                           *)

\* C26: after any sequence of anonymize with addEntries, removeEntry and
\* clear on the MappingService, every placeholder stored as a value of the
\* reverse index is a key of the forward map, and every placeholder anonymize
\* put into a text has a forward entry to restore it.
NoDanglingReverse ==
    flow = "session" =>
        /\ \A i \in DOMAIN reverseIndex : MapHas(entries, reverseIndex[i].val)
        /\ last.op = "anonymize" =>
              \A ph \in {MatchPlaceholders(last.result, last.parts, 1, 0)} :
                  \A k \in DOMAIN ph : MapHas(entries, ph[k])

----------------------------------------------------------------------------
(* Properties. The pass over a YAML text applied twice.                    *)

\* C27: the pass over a YAML text applied to its own output changes
\* nothing: postProcessYaml(postProcessYaml(t)) = postProcessYaml(t), for
\* lines with comments, quotes, escapes and flow collections.
PassIdempotent ==
    (flow = "yaml" /\ last.op = "postProcessYaml") => last.file = last.result

----------------------------------------------------------------------------
(* Properties. Two anonymizeFolder runs between each other's await points. *)

AllRunsEnded == \A r \in DOMAIN runs : runs[r].pc \in {"done", "failed"}

\* C28: when two anonymizeFolder runs into the same output folder interleave
\* at their await points and both have ended, the mapping document of the
\* folder maps every placeholder that stands for a value in an output file
\* of either run to the value it replaced.
InterleavedRunsCovered ==
    (flow = "interleave" /\ AllRunsEnded) =>
        \A p \in OutputFiles(disk) : FileCovered(disk, p)

----------------------------------------------------------------------------
(* Properties. The tag of a placeholder and the category of its match.     *)

\* the placeholders standing in the result for the matches, in order: the
\* text from the adjusted start of a match up to the next "]"
RECURSIVE Substituted(_, _, _, _)
Substituted(result, matches, n, offset) ==
    IF n > Len(matches) THEN <<>>
    ELSE LET from == matches[n].startIndex + offset + 1
             end == CHOOSE e \in from..Len(result) :
                        /\ result[e] = "]"
                        /\ \A k \in from..(e - 1) : result[k] # "]"
         IN  <<SubSeq(result, from, end)>>
             \o Substituted(result, matches, n + 1,
                            offset + (end - from + 1) - Len(matches[n].value))

\* C29: every placeholder that anonymize substitutes for a match carries the
\* category of that match as its tag, whether it was minted in the call or
\* found in the reverse index under the raw or the normalised value.
TagIsCategory ==
    (flow = "extension" /\ last.op = "anonymizeDocument") =>
        \A ph \in {Substituted(last.result, last.matches, 1, 0)} :
            \A k \in DOMAIN ph : TagIn(ph[k]) = TypeChars[last.matches[k].type]

----------------------------------------------------------------------------
(* Properties. A context-required category after setEnabled.               *)

\* the rule of the category is disabled and context-required: the detector
\* takes its matches only next to a keyword
ContextGated(ps, c) ==
    \E i \in DOMAIN ps : ps[i].type = c /\ ~ps[i].enabled /\ ps[i].contextRequired

\* the rules of the category among those getEnabledPatterns returns
ReturnedFor(ps, c) ==
    {i \in DOMAIN getEnabledPatterns(ps) : getEnabledPatterns(ps)[i].type = c}

\* C30: once setEnabled(c, b) was called for a category c, with either value
\* of b, by itself or through updateFromConfig or updatePatternSettings, the
\* rule of c is not disabled and context-required until reset() is called:
\* it is absent from getEnabledPatterns() or returned as an enabled rule.
\* This holds for the birth-date rule, the context-required rule of the
\* registry.
ToggledNeverGated ==
    flow = "registry" =>
        \A c \in toggled :
            /\ ~ContextGated(patterns, c)
            /\ \A i \in ReturnedFor(patterns, c) : getEnabledPatterns(patterns)[i].enabled

\* the birth-date category was set enabled, another call followed, and its
\* rule, still context-required, is returned as an enabled rule
ToggledNeverGatedWitness ==
    /\ flow = "registry"
    /\ "DOB" \in toggled
    /\ last.op = "getEnabledPatterns"
    /\ ReturnedFor(patterns, "DOB") # {}
    /\ \E i \in DOMAIN patterns :
          patterns[i].type = "DOB" /\ patterns[i].enabled /\ patterns[i].contextRequired

====
